---- MODULE Spec2Model ----
(***************************************************************************)
(* ScopeComponentsImporter (src/scope/component-ops/                       *)
(* scope-components-importer.ts) as a state machine.                       *)
(*                                                                         *)
(* The importer is one asynchronous flow of control per top-level call.    *)
(* Its methods call each other recursively, so the model keeps an explicit *)
(* call stack of frames.  Each method is translated segment by segment     *)
(* into an operator on the call's configuration (the stack and what the    *)
(* call has produced).  The call is suspended wherever it awaits the local *)
(* store or the remote: at every read of the store, at every remotes.fetch *)
(* and at every write of a fetched batch.  An action takes the call from   *)
(* one of these awaits to the next, or to its return or throw.  No other   *)
(* writer of the store is modelled: the file has none.                     *)
(*                                                                         *)
(* The local store (scope.sources, scope.objects), the remote              *)
(* (remotes.fetch) and scope.writeManyComponentsToModel are collaborators  *)
(* whose code is outside the file: they are modelled from their interface, *)
(* the remote as a nondeterministic choice per fetch.                      *)
(*                                                                         *)
(* importLanes is suspended at its fetch, at the deserialization of the    *)
(* answer and while the syncWithLaneObject calls of Promise.all are under  *)
(* way: each of them resolves or rejects in a step of its own.             *)
(* importManyObjects is suspended at every existence check, at its fetch   *)
(* and at the deserialization of the answer; the persist it does not await *)
(* settles after the method has returned.                                  *)
(***************************************************************************)
EXTENDS Integers, Sequences, FiniteSets, TLC

\* ------------------------------------------------------------------ bounds
\* longest identifier list a top-level call is given
MaxIds == 2
\* remote round-trips before the model stops following a run
MaxFetches == 2
\* top-level calls in one run (the second one repeats the first)
MaxCalls == 2

\* longest list of hashes importManyObjects is given for one scope
MaxHashes == 2
\* longest identifier list given to importManyWithAllVersions
MaxVersionedIds == 1

\* ------------------------------------------------------- identifier model
\* this.scope.name
Self == "self"

BitId(s, n, v) == [scope |-> s, name |-> n, version |-> v]

L1 == BitId("self", "a", 1)
L2 == BitId("self", "b", 1)
E1 == BitId("remA", "c", 1)
E2 == BitId("remB", "d", 1)

AllIds == {L1, L2, E1, E2}

\* other versions of the remote components: a later tag of each, and the
\* snap the head of remA/c points at (a version named by its hash)
E1v2 == BitId("remA", "c", 2)
E1head == BitId("remA", "c", 12)
E2v2 == BitId("remB", "d", 2)

AllVersionIds == AllIds \cup {E1v2, E1head, E2v2}

\* BitId.toString(): "scope/name@version"; RemoteLaneId.toString(): "scope/name"
\* (modelled as the triple, which is not the id object itself)
IdToString(id) ==
  IF "version" \in DOMAIN id THEN <<id.scope, id.name, id.version>>
  ELSE <<id.scope, id.name>>

\* id.isLocal(this.scope.name)
IsLocal(id) == id.scope = Self

Range(s) == {s[k] : k \in 1..Len(s)}

\* Version Content is immutable and content-addressed: the three flattened
\* dependency lists of a version are the same wherever the content is held.
\* L1 mixes scopes with an external id first; E1 and E2 refer to each other.
Flattened(id) ==
  CASE id = L1 -> [dependencies |-> <<E1, L2>>, devDependencies |-> <<E2>>,
                   extensions |-> <<>>]
    [] id = L2 -> [dependencies |-> <<>>, devDependencies |-> <<>>,
                   extensions |-> <<E2>>]
    [] id = E1 -> [dependencies |-> <<E2>>, devDependencies |-> <<L2, E2>>,
                   extensions |-> <<>>]
    [] id = E1v2 -> [dependencies |-> <<E2v2>>, devDependencies |-> <<>>,
                     extensions |-> <<>>]
    [] OTHER   -> [dependencies |-> <<E1>>, devDependencies |-> <<>>,
                   extensions |-> <<>>]

AllDependencies(id) ==
  Flattened(id).dependencies \o Flattened(id).devDependencies
    \o Flattened(id).extensions

\* component.listVersions(): the version tags the Component Record knows
ListVersions(component) ==
  CASE component = <<"remA", "c">> -> <<1, 2>>
    [] component = <<"remB", "d">> -> <<1, 2>>
    [] OTHER -> <<1>>

\* component.getHead(): the head snap of the Component Record, if it has one
GetHead(component) ==
  IF component = <<"remA", "c">> THEN <<12>> ELSE <<>>

\* duplicate-free lists of length <= n of the ids in S
RECURSIVE ListsOf(_, _)
ListsOf(S, n) ==
  IF n = 0 THEN {<<>>}
  ELSE LET shorter == ListsOf(S, n - 1)
       IN shorter \cup
          UNION {{Append(s, x) : x \in S \ Range(s)} :
                   s \in {t \in shorter : Len(t) = n - 1}}

\* duplicate-free identifier lists of length <= n
RECURSIVE IdLists(_)
IdLists(n) ==
  IF n = 0 THEN {<<>>}
  ELSE LET shorter == IdLists(n - 1)
       IN shorter \cup
          UNION {{Append(s, x) : x \in AllIds \ Range(s)} :
                   s \in {t \in shorter : Len(t) = n - 1}}

\* ------------------------------------------------------------------ state
VARIABLES
  records,        \* ids whose Component Record a local lookup finds
  contents,       \* ids whose Version Content is in the local store
  pending,        \* ids written to the store and not flushed yet
  stack,          \* call stack of the running call, innermost frame last
  call,           \* the top-level call: entry point, arguments, number
  outcome,        \* "idle", "running", "ok" or "failed"
  result,         \* what the top-level call returned
  error,          \* the error the top-level call failed with
  cause,          \* the error thrown inside the call
  unflushedRead,  \* a recursive re-check has read a store with unflushed writes
  fetchLog,       \* every remotes.fetch issued so far, oldest first
  remoteLanes,    \* scope.objects.remoteLanes: the tracked remote lanes
  lanesLog,       \* every remotes.fetch of type lane issued so far
  syncing,        \* the Lanes whose syncWithLaneObject has not settled yet
  notes,          \* what the running call has looked up and expanded so far
  objects,        \* the hashes scope.objects holds (importManyObjects)
  objectsCall,    \* the running importManyObjects call
  objectsLog      \* its remotes.fetch, addMany and persist calls so far

importerVars ==
  <<records, contents, pending, stack, call, outcome, result, error, cause,
    unflushedRead, fetchLog, remoteLanes, lanesLog, syncing, notes>>

objectsVars == <<objects, objectsCall, objectsLog>>

lanesVars == <<remoteLanes, lanesLog, syncing>>

vars == <<importerVars, objectsVars>>

\* the local store as the methods see it
Store == [records |-> records, contents |-> contents, pending |-> pending]

NoError == [kind |-> "none", id |-> <<>>]
Err(kind, id) == [kind |-> kind, id |-> id]

\* --------------------------------------------------- local store (reads)
\* sources.get(id): the ModelComponent, or undefined
SourcesGet(st, id) == id \in st.records

\* sources.getMany(ids): one ComponentDef {id, component} per id, in order
SourcesGetMany(st, ids) ==
  [k \in 1..Len(ids) |->
     [id |-> ids[k], component |-> SourcesGet(st, ids[k])]]

\* versionComp.getVersion(this.scope.objects): the Version, or undefined
GetVersion(st, id) == id \in st.contents

\* ------------------------------------------------------------- the remote
\* errors remotes.fetch can fail with: the two the importer passes through
\* unwrapped, and any other transport failure
RemoteErrors == {"RemoteScopeNotFound", "PermissionDenied", "NetworkError"}

\* What one fetch can bring back for the ids it lists: per id nothing, the
\* Component Record alone, or the record with the Version Content.
Batches(ids) == [Range(ids) -> {"none", "record", "full"}]

NoBatch(ids) == [id \in Range(ids) |-> "none"]

\* faulty variant: every id string is put under the scope of the first id
GroupByScopeName_FirstScope(ids) == [s \in {ids[1].scope} |-> [k \in 1..Len(ids) |-> IdToString(ids[k])]]

\* groupByScopeName(ids): scope name -> the id strings of that scope, in order
GroupByScopeName(ids) ==
  [s \in {ids[k].scope : k \in 1..Len(ids)} |->
     LET own == SelectSeq(ids, LAMBDA id : id.scope = s)
     IN [k \in 1..Len(own) |-> IdToString(own[k])]]

\* -------------------------------------------------- local store (writes)
\* scope.writeManyComponentsToModel(objectList, persist, ids): the objects
\* of the batch are added to the store (re-writing identical content is a
\* no-op) and the store is flushed when persist is set; it returns the ids
\* that are not lanes.
WrittenRecords(batch) == {id \in DOMAIN batch : batch[id] # "none"}
WrittenContents(batch) == {id \in DOMAIN batch : batch[id] = "full"}
NewObjects(st, batch) ==
  (WrittenRecords(batch) \ st.records)
    \cup (WrittenContents(batch) \ st.contents)
NonLaneIds(batch, ids) == ids

\* the persist parameter of writeManyComponentsToModel when undefined is passed
WriteDefaultPersist == TRUE

WriteManyComponentsToModel(st, batch, persist) ==
  [records |-> st.records \cup WrittenRecords(batch),
   contents |-> st.contents \cup WrittenContents(batch),
   pending |-> IF persist THEN {} ELSE st.pending \cup NewObjects(st, batch)]

\* ------------------------------------------------------------ call stack
Frame(fn, ids, localFetch, persist, depth) ==
  [fn |-> fn, pc |-> "start", ids |-> ids, localFetch |-> localFetch,
   persist |-> persist, depth |-> depth, i |-> 1, acc |-> <<>>,
   defs |-> <<>>, externals |-> <<>>, left |-> <<>>,
   deps |-> <<>>, dev |-> <<>>, allDepsVersions |-> FALSE,
   localOnly |-> TRUE]

\* looked: the ids the call has looked up in the local store;
\* expanded: the ids whose flattened dependency lists it has read;
\* allVersions, nested: the identifier sets importManyWithAllVersions built
NoNotes ==
  [looked |-> {}, expanded |-> {}, allVersions |-> <<>>, nested |-> <<>>]

\* the configuration of a call: its stack and what it has produced
Config(stk) ==
  [stack |-> stk, outcome |-> "running", result |-> <<>>,
   cause |-> NoError, unflushedRead |-> FALSE, notes |-> NoNotes]

\* the call looks ids up in the local store
Looked(c, ids) == [c EXCEPT !.notes.looked = @ \cup Range(ids)]

TopOf(c) == c.stack[Len(c.stack)]
BelowOf(c) == SubSeq(c.stack, 1, Len(c.stack) - 1)

\* the running method goes on as `frame` (also: a tail call)
Goto(c, frame) == [c EXCEPT !.stack = Append(BelowOf(c), frame)]

\* the running method awaits a call of another method
Invoke(c, caller, callee) ==
  [c EXCEPT !.stack = Append(Append(BelowOf(c), caller), callee)]

\* an error thrown anywhere rejects every pending promise up to the entry
\* point: no method below has a catch handler
Throw(c, e) == [c EXCEPT !.stack = <<>>, !.outcome = "failed", !.cause = e]

\* new VersionDependencies(versionComp, dependencies, devDependencies,
\* extensionsDependencies, source)
VersionDependencies(versionComp, dependencies, devDependencies, extensions, source) ==
  [component |-> versionComp, dependencies |-> dependencies,
   devDependencies |-> devDependencies,
   extensionsDependencies |-> extensions, source |-> source]

\* component.toComponentVersion(version)
ToComponentVersion(id) ==
  [component |-> <<id.scope, id.name>>, version |-> id.version]

\* componentVersion.id
ComponentVersionId(cv) == BitId(cv.component[1], cv.component[2], cv.version)

\* faulty variant: the closures of the local ids are dropped from the result
ImportManyResult_DropLocals(versionDeps, externalDeps) == externalDeps

\* importMany: return versionDeps.concat(externalDeps)
ImportManyResult(versionDeps, externalDeps) == versionDeps \o externalDeps

\* importManyWithoutDependencies: return componentVersionArr.concat(externalDeps)
ImportManyWithoutDependenciesResult(componentVersionArr, externalDeps) ==
  componentVersionArr \o externalDeps

\* a callee's value reaches the frame that awaits it
Deliver(caller, v) ==
  CASE caller.pc = "awaitLocal" ->
         [caller EXCEPT !.acc = @ \o v, !.i = @ + 1, !.pc = "locals"]
    [] caller.pc = "awaitExternals" /\ caller.fn = "importMany" ->
         [caller EXCEPT !.acc = ImportManyResult(@, v), !.pc = "ret"]
    [] caller.pc = "awaitExternals" ->
         [caller EXCEPT !.acc = ImportManyWithoutDependenciesResult(@, v),
                        !.pc = "ret"]
    [] caller.pc = "awaitExpand" ->
         [caller EXCEPT !.acc = @ \o v, !.i = @ + 1,
                        !.pc = IF caller.i + 1 > Len(caller.defs)
                               THEN "ret" ELSE "expand"]
    [] caller.pc = "awaitDeps" -> [caller EXCEPT !.deps = v, !.pc = "dev"]
    [] caller.pc = "awaitDev" -> [caller EXCEPT !.dev = v, !.pc = "ext"]
    [] caller.pc = "awaitFirst" ->
         [caller EXCEPT !.acc = v, !.pc = "versions"]
    [] caller.pc = "awaitShallow" -> [caller EXCEPT !.pc = "ret"]
    [] caller.pc = "awaitOlder" ->
         [caller EXCEPT !.acc = @ \o v, !.pc = "nested"]
    [] caller.pc = "awaitNested" ->
         [caller EXCEPT !.acc = @ \o v, !.pc = "ret"]
    [] caller.pc = "awaitComponent" ->
         [caller EXCEPT !.acc = v, !.pc = "consumer"]
    [] caller.pc = "awaitVersionDependencies" ->
         [caller EXCEPT !.acc = <<v[1].component>>, !.pc = "ret"]
    [] caller.pc = "awaitLanes" -> [caller EXCEPT !.acc = v, !.pc = "bitIds"]
    [] caller.pc = "awaitImport" -> [caller EXCEPT !.pc = "ret"]
    [] OTHER ->
         [caller EXCEPT
            !.acc = <<VersionDependencies(ToComponentVersion(caller.ids[1]),
                                          caller.deps, caller.dev, v,
                                          caller.ids[1].scope)>>,
            !.pc = "ret"]

\* a method returns: its promise resolves into the caller, or into the
\* caller of the top-level call
Return(c) ==
  LET n == Len(c.stack)
  IN IF n = 1
     THEN [c EXCEPT !.stack = <<>>, !.outcome = "ok",
                    !.result = TopOf(c).acc]
     ELSE [c EXCEPT !.stack = Append(SubSeq(c.stack, 1, n - 2),
                                     Deliver(c.stack[n - 1], TopOf(c).acc))]

\* --------------------------------------------------------------- importMany
\* default values of importMany's cache and persist parameters
ImportManyCache == TRUE
ImportManyPersist == TRUE

\* R.partition((id) => id.isLocal(this.scope.name), idsWithoutNils)
Partition(ids) ==
  [locals |-> SelectSeq(ids, IsLocal),
   externals |-> SelectSeq(ids, LAMBDA id : ~IsLocal(id))]

\* if (!def.component) throw new ComponentNotFound(...), in importMany
LocalDefMissing(def) == ~def.component

\* up to the lookup of the local ids
ImportMany_start(c, st) ==
  LET f == TopOf(c)
  IN IF f.ids = <<>>
     THEN Goto(c, [f EXCEPT !.pc = "ret"])
     ELSE LET p == Partition(f.ids)
          IN Goto(Looked(c, p.locals),
                  [f EXCEPT !.defs = SourcesGetMany(st, p.locals),
                            !.externals = p.externals, !.pc = "locals"])

\* mapSeries(localDefs, ...), one iteration; after the last one, the call
\* of _getExternalMany
ImportMany_locals(c, st) ==
  LET f == TopOf(c)
  IN IF f.i <= Len(f.defs)
     THEN LET def == f.defs[f.i]
          IN IF LocalDefMissing(def)
             THEN Throw(c, Err("ComponentNotFound", <<def.id>>))
             ELSE Invoke(c, [f EXCEPT !.pc = "awaitLocal"],
                         Frame("componentToVersionDependencies", <<def.id>>,
                               TRUE, TRUE, 0))
     ELSE Invoke(c, [f EXCEPT !.pc = "awaitExternals"],
                 Frame("_getExternalMany", f.externals, f.localFetch,
                       f.persist, 0))

\* ------------------------------------------- componentToVersionDependencies
\* faulty variant: the component is never taken to be the importer's own
IsOwnComponent_Never(id) == FALSE

\* component.scope === this.scope.name
IsOwnComponent(id) == id.scope = Self

\* the localFetch argument of the _getExternal call made when the version
\* object is missing
RefetchLocalFetch == FALSE

\* faulty variant: the flattened lists are resolved with the cache off
WithoutDependenciesCache_Off == FALSE

\* the cache parameter's default in importManyWithoutDependencies
WithoutDependenciesCache == TRUE

\* this.importManyWithoutDependencies(list)
ShallowCall(ids) ==
  Frame("importManyWithoutDependencies", ids, WithoutDependenciesCache,
        TRUE, 0)

ComponentToVersionDependencies_start(c, st) ==
  LET f == TopOf(c)
      id == f.ids[1]
  IN IF ~GetVersion(st, id)
     THEN IF IsOwnComponent(id)
          THEN Throw(c, Err("ShowDoctorError", <<id>>))
          ELSE Goto(c, Frame("_getExternal", <<id>>, RefetchLocalFetch,
                             TRUE, 0))
     ELSE Invoke([c EXCEPT !.notes.expanded = @ \cup {id}],
                 [f EXCEPT !.pc = "awaitDeps"],
                 ShallowCall(Flattened(id).dependencies))

ComponentToVersionDependencies_dev(c, st) ==
  LET f == TopOf(c)
  IN Invoke(c, [f EXCEPT !.pc = "awaitDev"],
            ShallowCall(Flattened(f.ids[1]).devDependencies))

ComponentToVersionDependencies_ext(c, st) ==
  LET f == TopOf(c)
  IN Invoke(c, [f EXCEPT !.pc = "awaitExt"],
            ShallowCall(Flattened(f.ids[1]).extensions))

\* ---------------------------------------------- importManyWithoutDependencies
\* splitBy(idsWithoutNils, (id) => id.isLocal(this.scope.name))
SplitBy(ids) ==
  [externals |-> SelectSeq(ids, LAMBDA id : ~IsLocal(id)),
   locals |-> SelectSeq(ids, IsLocal)]

\* faulty variant: a def without a component does not throw
MissingDefs_Ignored(defs) == {}

\* if (!def.component) throw new ComponentNotFound(...), in
\* importManyWithoutDependencies: the indexes of the defs that throw
MissingDefs(defs) == {k \in 1..Len(defs) : ~defs[k].component}

Min(S) == CHOOSE x \in S : \A y \in S : x <= y

ImportManyWithoutDependencies_start(c, st) ==
  LET f == TopOf(c)
  IN IF f.ids = <<>>
     THEN Goto(c, [f EXCEPT !.pc = "ret"])
     ELSE LET p == SplitBy(f.ids)
              localDefs == SourcesGetMany(st, p.locals)
              missing == MissingDefs(localDefs)
          IN IF missing # {}
             THEN Throw(Looked(c, p.locals),
                        Err("ComponentNotFound",
                            <<localDefs[Min(missing)].id>>))
             ELSE Invoke(Looked(c, p.locals),
                    [f EXCEPT !.acc = [k \in 1..Len(localDefs) |->
                                         ToComponentVersion(localDefs[k].id)],
                              !.pc = "awaitExternals"],
                    Frame("_getExternalManyWithoutDependencies",
                          p.externals, f.localFetch, TRUE, 0))

\* ------------------------------------------------------------ _getExternalMany
\* faulty variant: the recursive call does not look at the local store
GetExternalManyLocalFetch_Off == FALSE

\* the defaults of _getExternalMany's localFetch and persist parameters,
\* which the recursive call takes
GetExternalManyLocalFetch == TRUE

\* faulty variant: the recursive call of _getExternalMany writes without flushing
GetExternalManyPersist_Off == FALSE

GetExternalManyPersist == TRUE

\* faulty variant: every def is fetched, whatever the store holds
Left_All(defs, localFetch) == defs

\* componentDefs.filter(...): the defs to fetch from the remote
Left(defs, localFetch) ==
  SelectSeq(defs, LAMBDA def : ~localFetch \/ ~def.component)

DefIds(defs) == [k \in 1..Len(defs) |-> defs[k].id]

\* a lookup made by a recursive call reads the store the write-back before
\* it has left
NoteRead(c, st) ==
  IF TopOf(c).depth >= 1 /\ st.pending # {}
  THEN [Looked(c, TopOf(c).ids) EXCEPT !.unflushedRead = TRUE]
  ELSE Looked(c, TopOf(c).ids)

GetExternalMany_lookup(c, st) ==
  LET f == TopOf(c)
  IN IF f.ids = <<>>
     THEN Goto(c, [f EXCEPT !.pc = "ret"])
     ELSE LET componentDefs == SourcesGetMany(st, f.ids)
              left == Left(componentDefs, f.localFetch)
          IN IF Len(left) = 0
             THEN Goto(NoteRead(c, st),
                       [f EXCEPT !.defs = componentDefs, !.pc = "expand"])
             ELSE Goto(NoteRead(c, st),
                       [f EXCEPT !.defs = componentDefs,
                                 !.left = DefIds(left), !.pc = "fetch"])

\* mapSeries(componentDefs, ...) of the base case, one iteration
GetExternalMany_expand(c, st) ==
  LET f == TopOf(c)
  IN Invoke(c, [f EXCEPT !.pc = "awaitExpand"],
            Frame("componentToVersionDependencies", <<f.defs[f.i].id>>,
                  TRUE, TRUE, 0))

\* return this._getExternalMany(nonLaneIds, remotes)
GetExternalMany_recurse(f, nonLaneIds) ==
  Frame("_getExternalMany", nonLaneIds, GetExternalManyLocalFetch,
        GetExternalManyPersist, f.depth + 1)

\* --------------------------------------------------------------- _getExternal
\* the persist argument _getExternal gives writeManyComponentsToModel
GetExternalPersist == TRUE

GetExternal_lookup(c, st) ==
  LET f == TopOf(c)
      id == f.ids[1]
  IN IF SourcesGet(st, id) /\ f.localFetch
     THEN Goto(NoteRead(c, st),
               Frame("componentToVersionDependencies", <<id>>, TRUE, TRUE, 0))
     ELSE Goto(NoteRead(c, st), [f EXCEPT !.left = <<id>>, !.pc = "fetch"])

\* faulty variant: the call made after the write-back fetches again
GetExternal_recurse_Forced(f, nonLaneIds) == Frame("_getExternal", f.ids, FALSE, TRUE, f.depth + 1)

\* return this._getExternal({ id, remotes, localFetch: true })
GetExternal_recurse(f, nonLaneIds) ==
  Frame("_getExternal", f.ids, TRUE, TRUE, f.depth + 1)

\* ----------------------------------------- _getExternalManyWithoutDependencies
\* faulty variant: the filter asks the remote for every def
LeftWithoutDependencies_All(defs, localFetch) == defs

\* defs.filter(...): the defs to fetch from the remote
LeftWithoutDependencies(defs, localFetch) ==
  SelectSeq(defs, LAMBDA def : ~localFetch \/ ~def.component)

GetExternalManyWithoutDependencies_lookup(c, st) ==
  LET f == TopOf(c)
  IN IF f.ids = <<>>
     THEN Goto(c, [f EXCEPT !.pc = "ret"])
     ELSE LET defs == SourcesGetMany(st, f.ids)
              left == LeftWithoutDependencies(defs, f.localFetch)
          IN IF Len(left) = 0
             THEN Goto(NoteRead(c, st),
                       [f EXCEPT !.acc = [k \in 1..Len(defs) |->
                                            ToComponentVersion(defs[k].id)],
                                 !.pc = "ret"])
             ELSE Goto(NoteRead(c, st),
                       [f EXCEPT !.defs = defs, !.left = DefIds(left),
                                 !.pc = "fetch"])

\* faulty variant: after the write-back the ids are resolved with their closures
GetExternalManyWithoutDependencies_recurse_Deep(f, nonLaneIds) == Frame("_getExternalMany", nonLaneIds, TRUE, TRUE, f.depth + 1)

\* this._getExternalManyWithoutDependencies(nonLaneIds, remotes, true)
GetExternalManyWithoutDependencies_recurse(f, nonLaneIds) ==
  Frame("_getExternalManyWithoutDependencies", nonLaneIds, TRUE, TRUE,
        f.depth + 1)

\* ------------------------------------------- _getExternalWithoutDependencies
\* the persist argument _getExternalWithoutDependencies gives
\* writeManyComponentsToModel
GetExternalWithoutDependenciesPersist == TRUE

GetExternalWithoutDependencies_lookup(c, st) ==
  LET f == TopOf(c)
      id == f.ids[1]
  IN IF SourcesGet(st, id) /\ f.localFetch
     THEN Goto(NoteRead(c, st),
               [f EXCEPT !.acc = <<ToComponentVersion(id)>>, !.pc = "ret"])
     ELSE Goto(NoteRead(c, st), [f EXCEPT !.left = <<id>>, !.pc = "fetch"])

\* await this._getExternal({ id, remotes, localFetch: true }), after the
\* write-back
GetExternalWithoutDependencies_getExternal(c) ==
  LET f == TopOf(c)
  IN Invoke(c, [f EXCEPT !.pc = "awaitVersionDependencies"],
            Frame("_getExternal", f.ids, TRUE, TRUE, f.depth + 1))

\* ------------------------------------------------------- _getComponentVersion
GetComponentVersion_start(c, st) ==
  LET f == TopOf(c)
      id == f.ids[1]
  IN IF ~IsLocal(id)
     THEN Goto(c, Frame("_getExternalWithoutDependencies", <<id>>, TRUE,
                        TRUE, 0))
     ELSE IF ~SourcesGet(st, id)
          THEN Throw(Looked(c, <<id>>), Err("ComponentNotFound", <<id>>))
          ELSE Goto(Looked(c, <<id>>),
                    [f EXCEPT !.acc = <<ToComponentVersion(id)>>,
                              !.pc = "ret"])

\* -------------------------------------- loadComponent, loadRemoteComponent
\* default value of loadComponent's localOnly parameter
LoadComponentLocalOnly == TRUE

\* faulty variant: the guard lets every id through
RefusesRemote_Never(localOnly, id) == FALSE

\* localOnly && !id.isLocal(this.scope.name)
RefusesRemote(localOnly, id) == localOnly /\ ~IsLocal(id)

\* component.toConsumer(this.scope.objects): the ConsumerComponent is built
\* from the Version Content
ToConsumer(cv) == [consumer |-> ComponentVersionId(cv)]

LoadComponent_start(c, st) ==
  LET f == TopOf(c)
      id == f.ids[1]
  IN IF RefusesRemote(f.localOnly, id)
     THEN Throw(c, Err("GeneralError", <<>>))
     ELSE Invoke(c, [f EXCEPT !.pc = "awaitComponent"],
                 Frame("_getComponentVersion", <<id>>, TRUE, TRUE, 0))

\* loadRemoteComponent: the continuation of _getComponentVersion
LoadComponent_consumer(c, st) ==
  LET f == TopOf(c)
      id == f.ids[1]
  IN IF GetVersion(st, id)
     THEN Goto(c, [f EXCEPT !.acc = <<ToConsumer(f.acc[1])>>, !.pc = "ret"])
     ELSE Throw(c, Err("VersionNotFound", <<>>))

\* -------------------------------------------------- importManyWithAllVersions
\* faulty variant: the nested call runs with the cache off
AllVersionsCache_Off == FALSE

\* default values of importManyWithAllVersions' cache and allDepsVersions
\* parameters
AllVersionsCache == TRUE
AllDepsVersions == FALSE

\* versionId.changeVersion(version)
ChangeVersion(id, version) == BitId(id.scope, id.name, version)

\* if (head) allIdsWithAllVersions.push(versionId.changeVersion(head.toString()))
HeadId(versionId, component) ==
  LET head == GetHead(component)
  IN IF head # <<>> THEN <<ChangeVersion(versionId, head[1])>> ELSE <<>>

\* the ids one closure adds to allIdsWithAllVersions: every listed version
\* but the one of the closure, then the head
IdsWithAllVersions(versionDependencies) ==
  LET cv == versionDependencies.component
      versions == ListVersions(cv.component)
      versionId == ComponentVersionId(cv)
      tagged == [k \in 1..Len(versions) |->
                   ChangeVersion(versionId, versions[k])]
  IN SelectSeq(tagged, LAMBDA id : id.version # cv.version)
       \o HeadId(versionId, cv.component)

\* versionDependenciesArr.forEach(...)
RECURSIVE AllIdsWithAllVersions(_)
AllIdsWithAllVersions(versionDependenciesArr) ==
  IF versionDependenciesArr = <<>> THEN <<>>
  ELSE IdsWithAllVersions(versionDependenciesArr[1])
         \o AllIdsWithAllVersions(SubSeq(versionDependenciesArr, 2,
                                         Len(versionDependenciesArr)))

\* v.allDependencies.map((d) => d.id)
AllDependenciesIds(v) ==
  LET all == v.dependencies \o v.devDependencies \o v.extensionsDependencies
  IN [k \in 1..Len(all) |-> ComponentVersionId(all[k])]

\* R.flatten(allFlattenDepsIds)
RECURSIVE AllFlattenDepsIds(_)
AllFlattenDepsIds(versionDependenciesArr) ==
  IF versionDependenciesArr = <<>> THEN <<>>
  ELSE AllDependenciesIds(versionDependenciesArr[1])
         \o AllFlattenDepsIds(SubSeq(versionDependenciesArr, 2,
                                     Len(versionDependenciesArr)))

\* ids.hasWithoutVersion(id)
HasWithoutVersion(ids, id) ==
  \E x \in Range(ids) : x.scope = id.scope /\ x.name = id.name

\* faulty variant: no dependency id is left out
DependenciesOnly_All(versionDependenciesArr, ids) == AllFlattenDepsIds(versionDependenciesArr)

\* R.flatten(allFlattenDepsIds).filter((id) => !ids.hasWithoutVersion(id))
DependenciesOnly(versionDependenciesArr, ids) ==
  SelectSeq(AllFlattenDepsIds(versionDependenciesArr),
            LAMBDA id : ~HasWithoutVersion(ids, id))

\* BitIds.uniqFromArray(ids): the first occurrence of every id
RECURSIVE UniqFromArray(_)
UniqFromArray(ids) ==
  IF ids = <<>> THEN <<>>
  ELSE LET init == UniqFromArray(SubSeq(ids, 1, Len(ids) - 1))
           last == ids[Len(ids)]
       IN IF last \in Range(init) THEN init ELSE Append(init, last)

ImportManyWithAllVersions_start(c, st) ==
  LET f == TopOf(c)
  IN IF f.ids = <<>>
     THEN Goto(c, [f EXCEPT !.pc = "ret"])
     ELSE Invoke(c, [f EXCEPT !.pc = "awaitFirst"],
                 Frame("importMany", f.ids, f.localFetch, ImportManyPersist,
                       0))

\* the expanded identifier set is built; then the second pass
ImportManyWithAllVersions_versions(c, st) ==
  LET f == TopOf(c)
      allIdsWithAllVersions == AllIdsWithAllVersions(f.acc)
      noted == [c EXCEPT !.notes.allVersions =
                  Append(@, [ids |-> f.ids, first |-> f.acc,
                             expanded |-> allIdsWithAllVersions,
                             depth |-> f.depth, cache |-> f.localFetch,
                             deep |-> f.allDepsVersions])]
  IN IF f.allDepsVersions
     THEN Invoke(noted, [f EXCEPT !.pc = "awaitOlder"],
                 Frame("importMany", allIdsWithAllVersions, f.localFetch,
                       ImportManyPersist, 0))
     ELSE Invoke(noted, [f EXCEPT !.pc = "awaitShallow"],
                 ShallowCall(allIdsWithAllVersions))

\* deep mode, after the closures of the older versions have been added
ImportManyWithAllVersions_nested(c, st) ==
  LET f == TopOf(c)
      dependenciesOnly == DependenciesOnly(f.acc, f.ids)
      passed == UniqFromArray(dependenciesOnly)
      noted == [c EXCEPT !.notes.nested =
                  Append(@, [ids |-> f.ids, closures |-> f.acc,
                             passed |-> passed, depth |-> f.depth])]
  IN Invoke(noted, [f EXCEPT !.pc = "awaitNested"],
            [Frame("importManyWithAllVersions", passed, AllVersionsCache,
                   TRUE, f.depth + 1)
               EXCEPT !.allDepsVersions = AllDepsVersions])

\* importLanes up to its remotes.fetch
ImportLanes_start(c, st) ==
  LET f == TopOf(c)
  IN Goto(c, [f EXCEPT !.left = f.ids, !.pc = "fetch"])

\* ---------------------------------------------------------- importFromLanes
\* the cache argument importFromLanes gives importManyWithAllVersions
ImportFromLanesCache == FALSE

\* lane.toBitIds(): the component ids the lane points to
ToBitIds(lane) == lane.components

\* R.flatten(lanes.map((lane) => lane.toBitIds()))
RECURSIVE FlattenLanes(_)
FlattenLanes(lanes) ==
  IF lanes = <<>> THEN <<>>
  ELSE ToBitIds(lanes[1]) \o FlattenLanes(SubSeq(lanes, 2, Len(lanes)))

\* const lanes = await this.importLanes(remoteLaneIds)
ImportFromLanes_start(c, st) ==
  LET f == TopOf(c)
  IN Invoke(c, [f EXCEPT !.pc = "awaitLanes"],
            Frame("importLanes", f.ids, TRUE, TRUE, 0))

\* await this.importManyWithAllVersions(bitIds, false)
ImportFromLanes_bitIds(c, st) ==
  LET f == TopOf(c)
      bitIds == UniqFromArray(FlattenLanes(f.acc))
  IN Invoke(c, [f EXCEPT !.pc = "awaitImport"],
            Frame("importManyWithAllVersions", bitIds, ImportFromLanesCache,
                  TRUE, 0))

\* ------------------------------------------------------------ the scheduler
\* the next segment of the running method
Step(c, st) ==
  LET f == TopOf(c)
  IN CASE f.pc = "ret" -> Return(c)
       [] f.fn = "importMany" /\ f.pc = "start" -> ImportMany_start(c, st)
       [] f.fn = "importMany" /\ f.pc = "locals" -> ImportMany_locals(c, st)
       [] f.fn = "componentToVersionDependencies" /\ f.pc = "start" ->
            ComponentToVersionDependencies_start(c, st)
       [] f.fn = "componentToVersionDependencies" /\ f.pc = "dev" ->
            ComponentToVersionDependencies_dev(c, st)
       [] f.fn = "componentToVersionDependencies" /\ f.pc = "ext" ->
            ComponentToVersionDependencies_ext(c, st)
       [] f.fn = "importManyWithoutDependencies" /\ f.pc = "start" ->
            ImportManyWithoutDependencies_start(c, st)
       [] f.fn = "_getExternalMany" /\ f.pc = "start" ->
            GetExternalMany_lookup(c, st)
       [] f.fn = "_getExternalMany" /\ f.pc = "expand" ->
            GetExternalMany_expand(c, st)
       [] f.fn = "_getExternalMany" /\ f.pc = "written" ->
            Goto(c, GetExternalMany_recurse(f, f.acc))
       [] f.fn = "_getExternal" /\ f.pc = "start" -> GetExternal_lookup(c, st)
       [] f.fn = "_getExternal" /\ f.pc = "written" ->
            Goto(c, GetExternal_recurse(f, f.acc))
       [] f.fn = "_getExternalManyWithoutDependencies" /\ f.pc = "written" ->
            Goto(c, GetExternalManyWithoutDependencies_recurse(f, f.acc))
       [] f.fn = "_getExternalWithoutDependencies" /\ f.pc = "written" ->
            GetExternalWithoutDependencies_getExternal(c)
       [] f.fn = "importLanes" /\ f.pc = "syncing" ->
            Goto(c, [f EXCEPT !.pc = "ret"])
       [] f.fn = "_getExternalManyWithoutDependencies" /\ f.pc = "start" ->
            GetExternalManyWithoutDependencies_lookup(c, st)
       [] f.fn = "importLanes" /\ f.pc = "start" -> ImportLanes_start(c, st)
       [] f.fn = "importFromLanes" /\ f.pc = "start" ->
            ImportFromLanes_start(c, st)
       [] f.fn = "importFromLanes" /\ f.pc = "bitIds" ->
            ImportFromLanes_bitIds(c, st)
       [] f.fn = "_getExternalWithoutDependencies" /\ f.pc = "start" ->
            GetExternalWithoutDependencies_lookup(c, st)
       [] f.fn = "_getComponentVersion" /\ f.pc = "start" ->
            GetComponentVersion_start(c, st)
       [] f.fn = "loadComponent" /\ f.pc = "start" ->
            LoadComponent_start(c, st)
       [] f.fn = "loadComponent" /\ f.pc = "consumer" ->
            LoadComponent_consumer(c, st)
       [] f.fn = "importManyWithAllVersions" /\ f.pc = "start" ->
            ImportManyWithAllVersions_start(c, st)
       [] f.fn = "importManyWithAllVersions" /\ f.pc = "versions" ->
            ImportManyWithAllVersions_versions(c, st)
       [] f.fn = "importManyWithAllVersions" /\ f.pc = "nested" ->
            ImportManyWithAllVersions_nested(c, st)

\* the call awaits remotes.fetch
AtFetch(c) == c.outcome = "running" /\ TopOf(c).pc = "fetch"

\* the call awaits the write of a fetched batch (writeManyComponentsToModel):
\* the write is done, the method has not gone on yet
AtWrite(c) == c.outcome = "running" /\ TopOf(c).pc = "written"

\* importLanes awaits objectList.toBitObjects() or the Promise.all of the
\* syncWithLaneObject calls
AtLanes(c) ==
  c.outcome = "running" /\ TopOf(c).pc \in {"fetched", "syncing"}

\* the call awaits a read of the local store: sources.getMany (lines 54, 78,
\* 252, 336), sources.get (293, 313, 366), versionComp.getVersion (172),
\* component.toConsumer (221); a method given no ids returns before its read
AtRead(c) ==
  /\ c.outcome = "running"
  /\ LET f == TopOf(c)
     IN \/ /\ f.pc = "start" /\ f.ids # <<>>
           /\ f.fn \in {"importMany", "importManyWithoutDependencies",
                         "_getExternalMany",
                         "_getExternalManyWithoutDependencies"}
        \/ /\ f.pc = "start"
           /\ f.fn \in {"componentToVersionDependencies", "_getExternal",
                         "_getExternalWithoutDependencies"}
        \/ f.pc = "start" /\ f.fn = "_getComponentVersion" /\ IsLocal(f.ids[1])
        \/ f.pc = "consumer" /\ f.fn = "loadComponent"

\* the call runs until it awaits a read of the store, remotes.fetch, the
\* write of a batch or the lanes of a batch, returns or throws
RECURSIVE Run(_, _)
Run(c, st) ==
  IF \/ c.outcome # "running"
     \/ AtFetch(c) \/ AtWrite(c) \/ AtRead(c) \/ AtLanes(c)
  THEN c ELSE Run(Step(c, st), st)

\* ------------------------------------------------------------- the actions
Top == stack[Len(stack)]

\* the configuration the running call is in
Current ==
  [stack |-> stack, outcome |-> outcome, result |-> result, cause |-> cause,
   unflushedRead |-> unflushedRead, notes |-> notes]

\* e.id: of the errors thrown here only ComponentNotFound has an id property
\* (the id a ShowDoctorError is about is part of its message)
ErrorId(e) == IF e.kind = "ComponentNotFound" THEN e.id ELSE <<>>

\* faulty variant: the handler wraps every error
ImportDependenciesCatch_WrapsAll(e) == Err("DependencyNotFound", ErrorId(e))

\* importDependencies: the catch handler
ImportDependenciesCatch(e) ==
  IF e.kind \in {"RemoteScopeNotFound", "PermissionDenied"} THEN e
  ELSE Err("DependencyNotFound", ErrorId(e))

\* what the caller of the entry point sees of a failure
Surfaced(entry, e) ==
  IF entry = "importDependencies" THEN ImportDependenciesCatch(e) ELSE e

\* the call has run up to configuration c
Settle(entry, c) ==
  /\ stack' = c.stack
  /\ outcome' = c.outcome
  /\ result' = c.result
  /\ cause' = c.cause
  /\ error' = IF c.outcome = "failed" THEN Surfaced(entry, c.cause)
              ELSE NoError
  /\ unflushedRead' = c.unflushedRead
  /\ notes' = c.notes

\* one entry of fetchLog
LogEntry(by, left, opts, persist, depth, batch, err) ==
  [call |-> call.no, by |-> by, ids |-> left,
   request |-> GroupByScopeName(left), opts |-> opts, persist |-> persist,
   depth |-> depth, had |-> {id \in Range(left) : SourcesGet(Store, id)},
   hadContent |-> {id \in Range(left) : GetVersion(Store, id)},
   got |-> batch, error |-> err, tracked |-> remoteLanes,
   asked |-> Top.ids,
   localFetch |-> Top.localFetch,
   known |-> {id \in Range(Top.ids) : SourcesGet(Store, id)}]

\* the running call awaits the remotes.fetch of method fn
Fetching(fn) ==
  /\ outcome = "running"
  /\ Top.fn = fn /\ Top.pc = "fetch"
  /\ Len(fetchLog) < MaxFetches

\* remotes.fetch(groupByScopeName(left), ...) throws
FetchThrows(opts, persist, kind) ==
  /\ fetchLog' = Append(fetchLog,
        LogEntry(Top.fn, Top.left, opts, persist, Top.depth,
                 NoBatch(Top.left), kind))
  /\ Settle(call.entry, Throw(Current, Err(kind, <<>>)))
  /\ UNCHANGED <<records, contents, pending, call, objectsVars, lanesVars>>

\* remotes.fetch(groupByScopeName(left), ...) answers with a batch:
\* writeManyComponentsToModel(objectList, persist, ids) writes it, and the
\* call awaits the write in configuration after
FetchWritesThen(opts, persist, batch, after) ==
  LET written == WriteManyComponentsToModel(Store, batch, persist)
  IN /\ fetchLog' = Append(fetchLog,
           LogEntry(Top.fn, Top.left, opts, persist, Top.depth, batch,
                    "none"))
     /\ records' = written.records
     /\ contents' = written.contents
     /\ pending' = written.pending
     /\ Settle(call.entry, after)
     /\ UNCHANGED <<call, objectsVars, lanesVars>>

\* const nonLaneIds = await this.scope.writeManyComponentsToModel(...)
FetchWrites(opts, persist, batch, nonLaneIds) ==
  FetchWritesThen(opts, persist, batch,
                  Goto(Current, [Top EXCEPT !.acc = nonLaneIds,
                                            !.pc = "written"]))

\* the awaited write or read of the store has resolved (the read gives what
\* the store holds now): the method goes on, up to the next read, write or
\* remotes.fetch it awaits, or to the end of the call
Resume ==
  /\ AtWrite(Current) \/ AtRead(Current)
  /\ Settle(call.entry, Run(Step(Current, Store), Store))
  /\ UNCHANGED <<records, contents, pending, call, fetchLog, objectsVars,
                 lanesVars>>

GetExternalMany_fetch ==
  /\ Fetching("_getExternalMany")
  /\ \/ \E kind \in RemoteErrors :
          FetchThrows("components", Top.persist, kind)
     \/ \E batch \in Batches(Top.left) :
          FetchWrites("components", Top.persist, batch,
                      NonLaneIds(batch, Top.ids))

GetExternal_fetch ==
  /\ Fetching("_getExternal")
  /\ \/ \E kind \in RemoteErrors :
          FetchThrows("components", GetExternalPersist, kind)
     \/ \E batch \in Batches(Top.left) :
          FetchWrites("components", GetExternalPersist, batch,
                      NonLaneIds(batch, Top.ids))

GetExternalManyWithoutDependencies_fetch ==
  /\ Fetching("_getExternalManyWithoutDependencies")
  /\ \/ \E kind \in RemoteErrors :
          FetchThrows("withoutDependencies", WriteDefaultPersist, kind)
     \/ \E batch \in Batches(Top.left) :
          FetchWrites("withoutDependencies", WriteDefaultPersist, batch,
                      NonLaneIds(batch, Top.ids))

\* ------------------------------------------------------------- importLanes
RemoteLaneId(s, n) == [scope |-> s, name |-> n]

LaneA == RemoteLaneId("remA", "dev")
LaneB == RemoteLaneId("remB", "fix")

AllLaneIds == {LaneA, LaneB}

\* duplicate-free lists of lane ids of length <= n
RECURSIVE LaneIdLists(_)
LaneIdLists(n) ==
  IF n = 0 THEN {<<>>}
  ELSE LET shorter == LaneIdLists(n - 1)
       IN shorter \cup
          UNION {{Append(s, x) : x \in AllLaneIds \ Range(s)} :
                   s \in {t \in shorter : Len(t) = n - 1}}

\* the component ids a Lane can point at: each names a component and the
\* version the lane has as its head
LanePointers == {<<E2, E1>>, <<E1v2>>}

\* a Lane object of an Object Transfer Batch
Lane(laneId, components) ==
  [type |-> "lane", scope |-> laneId.scope, name |-> laneId.name,
   components |-> components]

\* an object of a batch that is not a Lane
OtherObject ==
  [type |-> "version", scope |-> "remA", name |-> "c", components |-> <<>>]

\* the objects a batch can hold
BatchObjects ==
  {Lane(id, p) : id \in AllLaneIds, p \in LanePointers} \cup {OtherObject}

\* a remote has one lane of a name: no two Lanes of a batch have the same
\* scope and name
OneLanePerName(batch) ==
  \A i, j \in 1..Len(batch) :
    (/\ batch[i].type = "lane" /\ batch[j].type = "lane"
     /\ batch[i].scope = batch[j].scope /\ batch[i].name = batch[j].name)
      => i = j

\* What a fetch of type lane can bring back: up to two objects, whatever
\* the request lists.
LaneBatches ==
  {b \in UNION {[1..n -> BatchObjects] : n \in 0..2} : OneLanePerName(b)}

\* bitObjects.getLanes(): the Lanes among the objects, in their order
GetLanes(bitObjects) == SelectSeq(bitObjects, LAMBDA o : o.type = "lane")

\* one entry of the tracking table
TrackedLane(remoteName, name, components) ==
  [scope |-> remoteName, name |-> name, components |-> components]

\* the tracking table as it can be before a call: at most one entry for a
\* (scope, lane name)
TrackedLanes ==
  {{TrackedLane(id.scope, id.name, tracked[id]) : id \in DOMAIN tracked} :
     tracked \in UNION {[S -> LanePointers] : S \in SUBSET AllLaneIds}}

\* faulty variant: the lane is tracked under the importer's own scope
LaneRemoteName_Self(lane) == Self

\* lane.scope as string: the remote name syncWithLaneObject is given
LaneRemoteName(lane) == lane.scope

\* two ids of the same component (the version is the head pointed at)
SameComponent(a, b) == a.scope = b.scope /\ a.name = b.name

\* one pointer is merged into the pointers of an entry: the pointer of the
\* same component is moved to the new head, a new component is added
MergePointer(components, id) ==
  IF \E k \in 1..Len(components) : SameComponent(components[k], id)
  THEN [k \in 1..Len(components) |->
          IF SameComponent(components[k], id) THEN id ELSE components[k]]
  ELSE Append(components, id)

RECURSIVE MergePointers(_, _)
MergePointers(components, ids) ==
  IF ids = <<>> THEN components
  ELSE MergePointers(MergePointer(components, ids[1]),
                     SubSeq(ids, 2, Len(ids)))

\* remoteLanes.syncWithLaneObject(remoteName, lane): the lane's pointers are
\* merged into the entry of (remoteName, lane.name), which is made when the
\* table has none
SyncWithLaneObject(table, remoteName, lane) ==
  LET old == {e \in table : e.scope = remoteName /\ e.name = lane.name}
      had == IF old = {} THEN <<>> ELSE (CHOOSE e \in old : TRUE).components
  IN (table \ old)
       \cup {TrackedLane(remoteName, lane.name,
                         MergePointers(had, lane.components))}

\* the error a rejected syncWithLaneObject throws
SyncErrors == {"LaneSyncError"}

LanesLogEntry(laneIds, batch, err) ==
  [call |-> call.no, ids |-> laneIds, request |-> GroupByScopeName(laneIds),
   type |-> "lane", before |-> remoteLanes, got |-> batch, error |-> err]

\* remotes.fetch(groupByScopeName(remoteLaneIds), this.scope, { type: 'lane' })
\* throws, or answers with a batch and the call awaits objectList.toBitObjects()
ImportLanes_fetch ==
  /\ outcome = "running"
  /\ Top.fn = "importLanes" /\ Top.pc = "fetch"
  /\ \/ \E kind \in RemoteErrors :
          /\ lanesLog' = Append(lanesLog, LanesLogEntry(Top.left, <<>>, kind))
          /\ Settle(call.entry, Throw(Current, Err(kind, <<>>)))
     \/ \E batch \in LaneBatches :
          /\ lanesLog' = Append(lanesLog,
                                LanesLogEntry(Top.left, batch, "none"))
          /\ Settle(call.entry,
                    Goto(Current, [Top EXCEPT !.acc = batch,
                                              !.pc = "fetched"]))
  /\ UNCHANGED <<records, contents, pending, call, fetchLog, objectsVars,
                 remoteLanes, syncing>>

\* toBitObjects() has resolved: const lanes = bitObjects.getLanes(), and
\* lanes.map calls syncWithLaneObject for every lane before Promise.all is
\* awaited
ImportLanes_toBitObjects ==
  /\ outcome = "running"
  /\ Top.fn = "importLanes" /\ Top.pc = "fetched"
  /\ LET lanes == GetLanes(Top.acc)
     IN /\ syncing' = Range(lanes)
        /\ Settle(call.entry,
                  Goto(Current, [Top EXCEPT !.acc = lanes,
                                            !.pc = "syncing"]))
  /\ UNCHANGED <<records, contents, pending, call, fetchLog, objectsVars,
                 remoteLanes, lanesLog>>

\* one of the started syncWithLaneObject calls resolves, in any order: the
\* table holds the lane's pointers from now on
ImportLanes_sync ==
  /\ \E lane \in syncing :
       /\ remoteLanes' =
            SyncWithLaneObject(remoteLanes, LaneRemoteName(lane), lane)
       /\ syncing' = syncing \ {lane}
  /\ UNCHANGED <<records, contents, pending, stack, call, outcome, result,
                 error, cause, unflushedRead, fetchLog, lanesLog, notes,
                 objectsVars>>

\* one of the started syncWithLaneObject calls rejects: Promise.all rejects
\* with its error and importLanes throws it; the other syncs are not
\* cancelled and what has been synced stays
ImportLanes_syncRejects ==
  /\ \E lane \in syncing, kind \in SyncErrors :
       /\ syncing' = syncing \ {lane}
       /\ IF outcome = "running"
          THEN Settle(call.entry, Throw(Current, Err(kind, <<>>)))
          ELSE UNCHANGED <<stack, outcome, result, error, cause,
                           unflushedRead, notes>>
  /\ UNCHANGED <<records, contents, pending, call, fetchLog, remoteLanes,
                 lanesLog, objectsVars>>

\* faulty variant: the syncs are not awaited
AllSynced_NoWait(started) == TRUE

\* await Promise.all(...): every started sync has resolved
AllSynced(started) == started = {}

\* Promise.all has resolved: return lanes, and the caller goes on up to its
\* next read of the store
ImportLanes_synced ==
  /\ outcome = "running"
  /\ Top.fn = "importLanes" /\ Top.pc = "syncing"
  /\ AllSynced(syncing)
  /\ Settle(call.entry, Run(Step(Current, Store), Store))
  /\ UNCHANGED <<records, contents, pending, call, fetchLog, objectsVars,
                 lanesVars>>

\* -------------------------------------------------------- importManyObjects
\* content hashes and the scopes they are asked from
Hashes == {"h1", "h2", "h3"}
RemoteScopes == {"remA", "remB"}

\* lists of hashes of length <= n, duplicates allowed
RECURSIVE HashLists(_)
HashLists(n) ==
  IF n = 0 THEN {<<>>}
  ELSE LET shorter == HashLists(n - 1)
       IN shorter \cup {Append(s, h) : s \in shorter, h \in Hashes}

\* the groupedHashes argument: scope name -> list of hashes
GroupedHashes ==
  UNION {[S -> HashLists(MaxHashes)] : S \in SUBSET RemoteScopes}

\* faulty variant: duplicates are kept
Uniq_Keep(s) == s

\* R.uniq(list): the first occurrence of every element, in order
RECURSIVE Uniq(_)
Uniq(s) ==
  IF s = <<>> THEN <<>>
  ELSE LET init == Uniq(SubSeq(s, 1, Len(s) - 1))
           last == s[Len(s)]
       IN IF last \in Range(init) THEN init ELSE Append(init, last)

\* this.scope.objects.has(new Ref(hash))
ObjectsHas(store, hash) == hash \in store

\* had: the object store as it was when the call was made
NoObjectsCall ==
  [phase |-> "idle", groupedHashes |-> <<>>, had |-> {}, checked |-> {},
   absent |-> {}, merged |-> {}, groupedHashedMissing |-> <<>>]

\* fetches, inserts, persists: the calls of remotes.fetch, addMany and
\* persist; staged: the objects addMany holds in memory; persisting: a
\* persist is under way; flushed: how the persists so far have ended
NoObjectsLog ==
  [fetches |-> <<>>, inserts |-> <<>>, persists |-> 0, staged |-> {},
   persisting |-> FALSE, flushed |-> {}]

\* the fetches importManyObjects has issued
ObjectFetches == objectsLog.fetches

\* uniqueHashes of one scope
UniqueHashes(scopeName) == Uniq(objectsCall.groupedHashes[scopeName])

\* the has() checks of one scope that have not resolved yet
Unchecked(scopeName) ==
  {h \in Range(UniqueHashes(scopeName)) :
     <<scopeName, h>> \notin objectsCall.checked}

\* importManyObjects(groupedHashes) is called: every scope's callback starts
\* and every has() of every scope is pending
ImportManyObjects ==
  /\ objectsCall.phase = "idle"
  /\ \E groupedHashes \in GroupedHashes :
       objectsCall' = [NoObjectsCall EXCEPT
                         !.phase = "checking",
                         !.groupedHashes = groupedHashes,
                         !.had = objects,
                         !.groupedHashedMissing =
                            [s \in {} |-> <<>>]]
  /\ UNCHANGED <<importerVars, objects, objectsLog>>

\* one pending has() resolves, in any order across hashes and scopes
ImportManyObjects_has ==
  /\ objectsCall.phase = "checking"
  /\ \E scopeName \in DOMAIN objectsCall.groupedHashes :
       \E hash \in Unchecked(scopeName) :
         objectsCall' =
           [objectsCall EXCEPT
              !.checked = @ \cup {<<scopeName, hash>>},
              !.absent = IF ObjectsHas(objects, hash) THEN @
                         ELSE @ \cup {<<scopeName, hash>>}]
  /\ UNCHANGED <<importerVars, objects, objectsLog>>

\* filter(uniqueHashes, ...) of one scope resolves, keeping the order of
\* uniqueHashes: if (missing.length) groupedHashedMissing[scopeName] = missing
ImportManyObjects_missing ==
  /\ objectsCall.phase = "checking"
  /\ \E scopeName \in DOMAIN objectsCall.groupedHashes \ objectsCall.merged :
       /\ Unchecked(scopeName) = {}
       /\ LET missing ==
                SelectSeq(UniqueHashes(scopeName),
                          LAMBDA h : <<scopeName, h>> \in objectsCall.absent)
              old == objectsCall.groupedHashedMissing
          IN objectsCall' =
               [objectsCall EXCEPT
                  !.merged = @ \cup {scopeName},
                  !.groupedHashedMissing =
                     IF Len(missing) > 0
                     THEN [s \in DOMAIN old \cup {scopeName} |->
                             IF s = scopeName THEN missing ELSE old[s]]
                     ELSE old]
  /\ UNCHANGED <<importerVars, objects, objectsLog>>

\* Promise.all has resolved
AllScopesChecked ==
  /\ objectsCall.phase = "checking"
  /\ objectsCall.merged = DOMAIN objectsCall.groupedHashes

\* if (R.isEmpty(groupedHashedMissing)) return
ImportManyObjects_return ==
  /\ AllScopesChecked
  /\ DOMAIN objectsCall.groupedHashedMissing = {}
  /\ objectsCall' = [objectsCall EXCEPT !.phase = "done"]
  /\ UNCHANGED <<importerVars, objects, objectsLog>>

\* the hashes a request lists
RequestedHashes(request) == UNION {Range(request[s]) : s \in DOMAIN request}

\* remotes.fetch(groupedHashedMissing, this.scope, { type: 'object' }) throws,
\* or answers and the call awaits objectList.toBitObjects()
ImportManyObjects_fetch ==
  /\ AllScopesChecked
  /\ DOMAIN objectsCall.groupedHashedMissing # {}
  /\ LET request == objectsCall.groupedHashedMissing
     IN \/ \E kind \in RemoteErrors :
             /\ objectsLog' =
                  [objectsLog EXCEPT
                     !.fetches = Append(@, [request |-> request,
                                            type |-> "object", got |-> {},
                                            error |-> kind])]
             /\ objectsCall' = [objectsCall EXCEPT !.phase = "failed"]
        \/ \E got \in SUBSET RequestedHashes(request) :
             /\ objectsLog' =
                  [objectsLog EXCEPT
                     !.fetches = Append(@, [request |-> request,
                                            type |-> "object", got |-> got,
                                            error |-> "none"])]
             /\ objectsCall' = [objectsCall EXCEPT !.phase = "fetched"]
  /\ UNCHANGED <<importerVars, objects>>

\* toBitObjects() has resolved: this.scope.objects.addMany(...) stages the
\* objects, this.scope.objects.persist() is called and not awaited, and the
\* method returns
ImportManyObjects_addMany ==
  /\ objectsCall.phase = "fetched"
  /\ LET got == ObjectFetches[Len(ObjectFetches)].got
     IN objectsLog' = [objectsLog EXCEPT !.inserts = Append(@, got),
                                         !.persists = @ + 1,
                                         !.staged = @ \cup got,
                                         !.persisting = TRUE]
  /\ objectsCall' = [objectsCall EXCEPT !.phase = "done"]
  /\ UNCHANGED <<importerVars, objects>>

\* the persist nobody awaits settles after the method has returned: the
\* staged objects are in the store, or the write failed and they are not
ImportManyObjects_persisted ==
  /\ objectsLog.persisting
  /\ \E written \in BOOLEAN :
       /\ objects' = IF written THEN objects \cup objectsLog.staged
                     ELSE objects
       /\ objectsLog' = [objectsLog EXCEPT !.persisting = FALSE,
                                           !.staged = {},
                                           !.flushed = @ \cup {written}]
  /\ UNCHANGED <<importerVars, objectsCall>>

GetExternalWithoutDependencies_fetch ==
  /\ Fetching("_getExternalWithoutDependencies")
  /\ \/ \E kind \in RemoteErrors :
          FetchThrows("withoutDependencies",
                      GetExternalWithoutDependenciesPersist, kind)
     \/ \E batch \in Batches(Top.left) :
          FetchWritesThen("withoutDependencies",
                          GetExternalWithoutDependenciesPersist, batch,
                          Goto(Current, [Top EXCEPT !.pc = "written"]))

\* --------------------------------------------------------- top-level calls
NoCall ==
  [entry |-> "none", ids |-> <<>>, cache |-> TRUE, persist |-> TRUE,
   allDepsVersions |-> FALSE, localOnly |-> TRUE, no |-> 0, prev |-> "none"]

\* the frame a top-level call starts with; importDependencies is
\* this.importMany(dependencies)
EntryFrame(entry, ids, cache, persist) ==
  CASE entry = "importManyWithoutDependencies" ->
         Frame("importManyWithoutDependencies", ids, cache, TRUE, 0)
    [] entry = "importDependencies" ->
         Frame("importMany", ids, ImportManyCache, ImportManyPersist, 0)
    [] entry = "importLanes" -> Frame("importLanes", ids, TRUE, TRUE, 0)
    [] entry = "importFromLanes" ->
         Frame("importFromLanes", ids, TRUE, TRUE, 0)
    [] entry = "importManyWithAllVersions" ->
         Frame("importManyWithAllVersions", ids, cache, TRUE, 0)
    [] entry = "loadComponent" -> Frame("loadComponent", ids, TRUE, TRUE, 0)
    [] entry = "componentToVersionDependencies" ->
         Frame("componentToVersionDependencies", ids, TRUE, TRUE, 0)
    [] OTHER -> Frame("importMany", ids, cache, persist, 0)

\* a top-level call with all its arguments
BeginWith(entry, ids, cache, persist, allDepsVersions, localOnly) ==
  /\ call' = [entry |-> entry, ids |-> ids, cache |-> cache,
              persist |-> persist, allDepsVersions |-> allDepsVersions,
              localOnly |-> localOnly, no |-> call.no + 1, prev |-> outcome]
  /\ Settle(entry,
            Run(Config(<<[EntryFrame(entry, ids, cache, persist)
                            EXCEPT !.allDepsVersions = allDepsVersions,
                                   !.localOnly = localOnly]>>),
                Store))
  /\ UNCHANGED <<records, contents, pending, fetchLog, objectsVars,
                 lanesVars>>

Begin(entry, ids, cache, persist) ==
  BeginWith(entry, ids, cache, persist, AllDepsVersions,
            LoadComponentLocalOnly)

ImportMany ==
  /\ outcome = "idle"
  /\ \E ids \in IdLists(MaxIds), cache \in BOOLEAN, persist \in BOOLEAN :
       Begin("importMany", ids, cache, persist)

ImportManyWithoutDependencies ==
  /\ outcome = "idle"
  /\ \E ids \in IdLists(MaxIds), cache \in BOOLEAN :
       Begin("importManyWithoutDependencies", ids, cache, TRUE)

ImportDependencies ==
  /\ outcome = "idle"
  /\ \E ids \in IdLists(MaxIds) :
       Begin("importDependencies", ids, ImportManyCache, ImportManyPersist)

ImportManyWithAllVersions ==
  /\ outcome = "idle"
  /\ \E ids \in ListsOf(AllVersionIds, MaxVersionedIds), cache \in BOOLEAN,
        allDepsVersions \in BOOLEAN :
       BeginWith("importManyWithAllVersions", ids, cache, TRUE,
                 allDepsVersions, LoadComponentLocalOnly)

LoadComponent ==
  /\ outcome = "idle"
  /\ \E id \in AllVersionIds, localOnly \in BOOLEAN :
       BeginWith("loadComponent", <<id>>, TRUE, TRUE, AllDepsVersions,
                 localOnly)

\* componentToVersionDependencies(component, id) called by itself: its
\* caller holds the ModelComponent of the id
ComponentToVersionDependencies ==
  /\ outcome = "idle"
  /\ \E id \in AllVersionIds \cap records :
       Begin("componentToVersionDependencies", <<id>>, TRUE, TRUE)

ImportFromLanes ==
  /\ outcome = "idle"
  /\ \E laneIds \in LaneIdLists(MaxIds) :
       Begin("importFromLanes", laneIds, TRUE, TRUE)

ImportLanes ==
  /\ outcome = "idle"
  /\ \E laneIds \in LaneIdLists(MaxIds) :
       Begin("importLanes", laneIds, TRUE, TRUE)

\* the caller issues the same call again once the first one has returned
Repeat ==
  /\ outcome = "ok"
  /\ call.no < MaxCalls
  /\ BeginWith(call.entry, call.ids, call.cache, call.persist,
               call.allDepsVersions, call.localOnly)

\* no call of the importer has been made
NoCallYet ==
  /\ pending = {}
  /\ stack = <<>>
  /\ call = NoCall
  /\ outcome = "idle"
  /\ result = <<>>
  /\ error = NoError
  /\ cause = NoError
  /\ unflushedRead = FALSE
  /\ fetchLog = <<>>
  /\ lanesLog = <<>>
  /\ syncing = {}
  /\ notes = NoNotes
  /\ objectsCall = NoObjectsCall
  /\ objectsLog = NoObjectsLog

Init ==
  /\ records \in SUBSET AllIds
  /\ contents \in SUBSET records
  /\ objects = {}
  /\ remoteLanes = {}
  /\ NoCallYet

Next ==
  \/ ImportMany
  \/ ImportManyWithoutDependencies
  \/ ImportDependencies
  \/ GetExternalMany_fetch
  \/ GetExternal_fetch
  \/ GetExternalManyWithoutDependencies_fetch
  \/ Resume

Spec == Init /\ [][Next]_vars

\* importMany, called again with the same arguments once it has returned
NextRepeat ==
  \/ ImportMany
  \/ Repeat
  \/ GetExternalMany_fetch
  \/ GetExternal_fetch
  \/ GetExternalManyWithoutDependencies_fetch
  \/ Resume

SpecRepeat == Init /\ [][NextRepeat]_vars

\* every entry point that resolves components, over the stores in which
\* the importer's own components are complete and every external component
\* is either missing or complete
ExternalStores ==
  {{}, {E1}, {E1, E2}, {E2, E2v2}, {E1, E2, E1v2, E1head, E2v2}}

InitComponents ==
  /\ records \in {{L1, L2} \cup S : S \in ExternalStores}
  /\ contents = records
  /\ objects = {}
  /\ remoteLanes = {}
  /\ NoCallYet

NextComponents ==
  \/ ImportMany
  \/ ImportManyWithoutDependencies
  \/ ImportManyWithAllVersions
  \/ LoadComponent
  \/ ComponentToVersionDependencies
  \/ GetExternalMany_fetch
  \/ GetExternal_fetch
  \/ GetExternalManyWithoutDependencies_fetch
  \/ GetExternalWithoutDependencies_fetch
  \/ Resume

SpecComponents == InitComponents /\ [][NextComponents]_vars

\* deep importManyWithAllVersions with a remote that satisfies every fetch:
\* the batch holds the record and the content of every id asked for
Satisfied(ids) == [id \in Range(ids) |-> "full"]

GetExternalMany_satisfied ==
  /\ outcome = "running"
  /\ Top.fn = "_getExternalMany" /\ Top.pc = "fetch"
  /\ FetchWrites("components", Top.persist, Satisfied(Top.left),
                 NonLaneIds(Satisfied(Top.left), Top.ids))

GetExternal_satisfied ==
  /\ outcome = "running"
  /\ Top.fn = "_getExternal" /\ Top.pc = "fetch"
  /\ FetchWrites("components", GetExternalPersist, Satisfied(Top.left),
                 NonLaneIds(Satisfied(Top.left), Top.ids))

GetExternalManyWithoutDependencies_satisfied ==
  /\ outcome = "running"
  /\ Top.fn = "_getExternalManyWithoutDependencies" /\ Top.pc = "fetch"
  /\ FetchWrites("withoutDependencies", WriteDefaultPersist,
                 Satisfied(Top.left),
                 NonLaneIds(Satisfied(Top.left), Top.ids))

ImportManyWithAllVersionsDeep ==
  /\ outcome = "idle"
  /\ \E ids \in ListsOf(AllVersionIds, MaxVersionedIds), cache \in BOOLEAN :
       BeginWith("importManyWithAllVersions", ids, cache, TRUE, TRUE,
                 LoadComponentLocalOnly)

\* the stores of InitComponents, and those in which the external records
\* have lost their contents
InitDeep ==
  /\ records \in {{L1, L2} \cup S : S \in ExternalStores}
  /\ contents \in {records, {L1, L2}}
  /\ objects = {}
  /\ remoteLanes = {}
  /\ NoCallYet

NextDeep ==
  \/ ImportManyWithAllVersionsDeep
  \/ GetExternalMany_satisfied
  \/ GetExternal_satisfied
  \/ GetExternalManyWithoutDependencies_satisfied
  \/ Resume

\* the remote answers every fetch the call awaits; the number of fetches
\* is not capped
SpecDeep == InitDeep /\ [][NextDeep]_vars

\* importFromLanes, over the stores of InitComponents, with nothing tracked
\* or with one lane tracked with an older head
InitFromLanes ==
  /\ records \in {{L1, L2} \cup S : S \in ExternalStores}
  /\ contents = records
  /\ objects = {}
  /\ remoteLanes \in {{}, {TrackedLane("remA", "dev", <<E2, E1>>)}}
  /\ NoCallYet

NextFromLanes ==
  \/ ImportFromLanes
  \/ ImportLanes_fetch
  \/ ImportLanes_toBitObjects
  \/ ImportLanes_sync
  \/ ImportLanes_syncRejects
  \/ ImportLanes_synced
  \/ GetExternalMany_fetch
  \/ GetExternal_fetch
  \/ GetExternalManyWithoutDependencies_fetch
  \/ Resume

SpecFromLanes == InitFromLanes /\ [][NextFromLanes]_vars

\* the lane methods, over every content of the tracking table
InitLanes ==
  /\ records = {}
  /\ contents = {}
  /\ objects = {}
  /\ remoteLanes \in TrackedLanes
  /\ NoCallYet

NextLanes ==
  \/ ImportLanes
  \/ ImportLanes_fetch
  \/ ImportLanes_toBitObjects
  \/ ImportLanes_sync
  \/ ImportLanes_syncRejects
  \/ ImportLanes_synced
  \/ Repeat

SpecLanes == InitLanes /\ [][NextLanes]_vars

\* importManyObjects alone, over every content of the object store
InitObjects ==
  /\ records = {}
  /\ contents = {}
  /\ objects \in SUBSET Hashes
  /\ remoteLanes = {}
  /\ NoCallYet

NextObjects ==
  \/ ImportManyObjects
  \/ ImportManyObjects_has
  \/ ImportManyObjects_missing
  \/ ImportManyObjects_return
  \/ ImportManyObjects_fetch
  \/ ImportManyObjects_addMany
  \/ ImportManyObjects_persisted

SpecObjects == InitObjects /\ [][NextObjects]_vars

\* ------------------------------------------------------- reading the log
\* the fetches of the running (or last) call, as indexes of fetchLog
CallFetches == {k \in 1..Len(fetchLog) : fetchLog[k].call = call.no}

\* the batch brought the record and the content of every id asked for
FullySupplied(e) ==
  e.error = "none" /\ \A id \in Range(e.ids) : e.got[id] = "full"

\* the batch added something to the local store
Progress(e) ==
  \E id \in Range(e.ids) :
    \/ e.got[id] # "none" /\ id \notin e.had
    \/ e.got[id] = "full" /\ id \notin e.hadContent

\* the ids the method still cannot resolve after the write-back: for the
\* batch methods those without a record, for _getExternal the one without
\* content
Residual(e) ==
  IF e.by = "_getExternal"
  THEN {id \in Range(e.ids) : id \notin e.hadContent /\ e.got[id] # "full"}
  ELSE {id \in Range(e.ids) : id \notin e.had /\ e.got[id] = "none"}

\* how many fetches listed id
RoundTrips(id) ==
  Cardinality({k \in 1..Len(fetchLog) : id \in Range(fetchLog[k].ids)})

\* the ids of the closures a call of importMany returned
ResultIds == [k \in 1..Len(result) |-> ComponentVersionId(result[k].component)]

IsImportMany == call.entry = "importMany"

\* every local id the call needs is in the local store: the requested ones
\* with their content, those of their flattened lists with a record
LocallyResolvable ==
  \A id \in Range(call.ids) :
    /\ IsLocal(id) => id \in records /\ id \in contents
    /\ \A d \in Range(AllDependencies(id)) : IsLocal(d) => d \in records

\* ------------------------------------------------------------------ claims
\* C1: importMany returns exactly one closure per requested id: when it
\* returns, the result has as many entries as the request and every requested
\* id is the id of exactly one of them; and it does return (never fails) when
\* every local id is resolvable and every fetch brought all it was asked for.
C1_Coverage ==
  IsImportMany =>
    /\ outcome = "ok" =>
         /\ Len(result) = Len(call.ids)
         /\ \A id \in Range(call.ids) :
              Cardinality({k \in 1..Len(result) : ResultIds[k] = id}) = 1
    /\ (LocallyResolvable /\ \A k \in CallFetches : FullySupplied(fetchLog[k]))
         => outcome # "failed"

C1_Witness ==
  /\ IsImportMany /\ outcome = "ok" /\ call.no = 1
  /\ Len(call.ids) = 2
  /\ \E id \in Range(call.ids) : IsLocal(id)
  /\ \E k \in CallFetches : \E id \in Range(call.ids) :
       id \in Range(fetchLog[k].ids)

\* the request names ids of the importer's own scope only
AllLocal == call.ids # <<>> /\ \A id \in Range(call.ids) : IsLocal(id)

\* the ids in the flattened lists of the requested ids
RequestedDependencies ==
  UNION {Range(AllDependencies(id)) : id \in Range(call.ids)}

\* C2 as stated: a call of importMany whose ids are all of the importer's own
\* scope issues no remote fetch at all.
C2_LocalOnlyNoNetwork ==
  (IsImportMany /\ AllLocal) => CallFetches = {}

\* C2 as amended: a call of importMany whose ids are all of the importer's
\* own scope never lists a requested id in a remote fetch; every fetch it
\* issues is the shallow (withoutDependencies) fetch of ids of other scopes
\* that are in the flattened lists of the requested ids and had no local
\* Component Record when the fetch was issued.
C2_LocalOnlyFetchesMissingDependencies ==
  (IsImportMany /\ AllLocal) =>
    \A k \in CallFetches :
      LET e == fetchLog[k]
      IN /\ e.by = "_getExternalManyWithoutDependencies"
         /\ e.opts = "withoutDependencies"
         /\ \A id \in Range(e.ids) :
              /\ ~IsLocal(id)
              /\ id \notin Range(call.ids)
              /\ id \in RequestedDependencies
              /\ id \notin e.had

C2_Witness ==
  /\ IsImportMany /\ AllLocal /\ outcome = "ok"
  /\ Len(call.ids) = 2
  /\ Cardinality(CallFetches) = 2

\* the call repeats a successful importMany(ids) made with the default flags
IsReimport ==
  /\ IsImportMany /\ call.cache /\ call.persist
  /\ call.no >= 2 /\ outcome = "ok"

RepeatFetches == {k \in 1..Len(fetchLog) : fetchLog[k].call >= 2}

\* C3 as stated: when importMany(ids) with the default flags is repeated
\* after it returned, the repeated call issues no remote fetch, and over both
\* calls every id is listed in at most one fetch.
C3_IdempotentReimport ==
  IsReimport =>
    /\ RepeatFetches = {}
    /\ \A id \in AllIds : RoundTrips(id) <= 1

\* C3 as amended: the repeated call issues no remote fetch; and every id is
\* listed in at most one fetch over both calls when every fetch brought the
\* record and the content of all the ids it listed.
C3_IdempotentReimportWhenSupplied ==
  IsReimport =>
    /\ RepeatFetches = {}
    /\ (\A k \in 1..Len(fetchLog) : FullySupplied(fetchLog[k]))
         => \A id \in AllIds : RoundTrips(id) <= 1

C3_Witness ==
  /\ IsReimport
  /\ Len(call.ids) = 2
  /\ Len(fetchLog) = 2
  /\ \A k \in 1..Len(fetchLog) : FullySupplied(fetchLog[k])
  /\ Len(result) = 2

\* the ids of a list of resolved shallow entries
EntryIds(entries) ==
  [k \in 1..Len(entries) |-> ComponentVersionId(entries[k])]

\* C4 as stated: in every closure importMany returns, each of the three
\* dependency arrays holds resolved entries for exactly the ids of the
\* version's flattened list, in the order of that list.
C4_ClosureKeepsListOrder ==
  (call.entry \in {"importMany", "importDependencies"} /\ outcome = "ok") =>
    \A k \in 1..Len(result) :
      LET vd == result[k]
          lists == Flattened(ComponentVersionId(vd.component))
      IN /\ EntryIds(vd.dependencies) = lists.dependencies
         /\ EntryIds(vd.devDependencies) = lists.devDependencies
         /\ EntryIds(vd.extensionsDependencies) = lists.extensions

\* the frames of _getExternalMany on the stack
ResolverFrames ==
  {k \in 1..Len(stack) : stack[k].fn = "_getExternalMany"}

\* C5: once a fetch of _getExternalMany has brought the record and the
\* content of every id of its residual, the method recurses exactly once more
\* when the write of the batch has resolved: that call (one level deeper)
\* reads the store, finds nothing left and expands the closures,
\* _getExternalMany fetches no more in that call of importMany, no later
\* fetch of the call lists an id of that residual, and when the call returns
\* the result holds a closure for each of them.
C5_WriteBackConvergence ==
  \A k \in 1..Len(fetchLog) :
    LET e == fetchLog[k]
    IN (e.by = "_getExternalMany" /\ FullySupplied(e)) =>
         /\ \A j \in (k + 1)..Len(fetchLog) :
              fetchLog[j].call = e.call =>
                /\ fetchLog[j].by # "_getExternalMany"
                /\ Range(fetchLog[j].ids) \cap Range(e.ids) = {}
         /\ (e.call = call.no /\ outcome = "running") =>
              \/ /\ k = Len(fetchLog)
                 /\ Top.fn = "_getExternalMany"
                 /\ \/ AtWrite(Current) /\ Top.depth = e.depth
                    \/ AtRead(Current) /\ Top.depth = e.depth + 1
              \/ \E f \in ResolverFrames :
                   /\ stack[f].depth = e.depth + 1
                   /\ stack[f].pc = "awaitExpand"
                   /\ stack[f].left = <<>>
         /\ (e.call = call.no /\ outcome = "ok") =>
              Range(e.ids) \subseteq Range(ResultIds)

C5_Witness ==
  /\ outcome = "ok" /\ call.no = 1 /\ Len(fetchLog) = 2
  /\ fetchLog[1].by = "_getExternalMany"
  /\ ~FullySupplied(fetchLog[1])
  /\ fetchLog[2].by = "_getExternalMany"
  /\ fetchLog[2].depth = 1
  /\ Len(fetchLog[2].ids) >= 1
  /\ FullySupplied(fetchLog[2])
  /\ Len(result) = 2

\* the fetch brought nothing new and left ids the method cannot resolve
Stalled(e) == e.error = "none" /\ ~Progress(e) /\ Residual(e) # {}

\* C6 as stated: a fetch that brings no new data while the residual stays
\* non-empty ends the call with a failure: a call that has seen such a fetch
\* has failed.
C6_NoProgressIsTerminal ==
  \A k \in CallFetches : Stalled(fetchLog[k]) => outcome = "failed"

\* C7 as stated: whatever the persist flag, no recursive re-check reads a
\* local store that holds writes of a write-back that were not flushed.
C7_RecheckReadsFlushedStore == ~unflushedRead

\* C7 as amended: in a call made with persist = true (the default), no
\* recursive re-check reads a local store that holds unflushed writes: every
\* write-back of the call is flushed before the ids are looked up again.
C7_RecheckReadsFlushedStoreWhenPersist ==
  call.persist => (~unflushedRead /\ pending = {})

C7_Witness ==
  /\ call.persist /\ outcome = "ok" /\ call.no = 1
  /\ Len(fetchLog) = 2
  /\ fetchLog[1].by = "_getExternalMany"
  /\ fetchLog[2].by = "_getExternal"
  /\ \A k \in CallFetches : Progress(fetchLog[k])

\* the requested ids of the importer's own scope, in the order of the request
RequestedLocals == SelectSeq(call.ids, IsLocal)

\* the Component Record is in the local store and the Version Content is not
ContentMissing(id) == id \in records /\ id \notin contents

ResolvesClosures == call.entry \in {"importMany", "importDependencies"}

\* C8: a local id whose Component Record is stored while its Version Content
\* is not is a fatal error of componentToVersionDependencies: the call fails
\* with it (after the two reads of the store that find the record and miss
\* the content, with no fetch at all, when the id is the first local id of
\* the request), the id is never listed in a remote fetch, and no call that
\* requests such an id returns.
C8_ConsistencyViolation ==
  /\ cause.kind = "ShowDoctorError" =>
       /\ outcome = "failed"
       /\ IsLocal(cause.id[1]) /\ ContentMissing(cause.id[1])
       /\ \A k \in 1..Len(fetchLog) : cause.id[1] \notin Range(fetchLog[k].ids)
  /\ (ResolvesClosures /\ RequestedLocals # <<>>
        /\ ContentMissing(RequestedLocals[1])) =>
       /\ outcome \in {"running", "failed"}
       /\ outcome = "failed" =>
            cause = Err("ShowDoctorError", <<RequestedLocals[1]>>)
       /\ outcome = "running" =>
            /\ AtRead(Current)
            /\ \/ Len(stack) = 1 /\ Top.fn = "importMany"
               \/ /\ Len(stack) = 2
                  /\ Top.fn = "componentToVersionDependencies"
                  /\ Top.ids = <<RequestedLocals[1]>>
       /\ CallFetches = {}
  /\ (ResolvesClosures
        /\ \E id \in Range(RequestedLocals) : ContentMissing(id)) =>
       outcome \in {"running", "failed"}

C8_Witness ==
  /\ cause.kind = "ShowDoctorError"
  /\ Len(call.ids) = 2
  /\ cause.id[1] = call.ids[2]
  /\ CallFetches # {}

\* C9: a batch call returns all or nothing: a failed call returns no
\* result and (for importMany and importManyWithoutDependencies) fails with
\* the error that was thrown; a call that returns has one result per id; a
\* call that requests a local id without a Component Record never returns;
\* and ComponentNotFound is thrown for a local id without a record, which is
\* not listed in any remote fetch.
C9_NoPartialResult ==
  /\ outcome = "failed" =>
       /\ result = <<>>
       /\ call.entry # "importDependencies" => error = cause
  /\ outcome = "ok" => Len(result) = Len(call.ids)
  /\ (\E id \in Range(RequestedLocals) : id \notin records) =>
       outcome \in {"running", "failed"}
  /\ cause.kind = "ComponentNotFound" =>
       /\ outcome = "failed"
       /\ IsLocal(cause.id[1]) /\ cause.id[1] \notin records
       /\ \A k \in 1..Len(fetchLog) : cause.id[1] \notin Range(fetchLog[k].ids)

C9_Witness ==
  /\ outcome = "failed" /\ cause.kind = "ComponentNotFound"
  /\ call.entry = "importMany"
  /\ Len(call.ids) = 2
  /\ cause.id[1] = call.ids[2]
  /\ call.ids[1] \in contents
  /\ CallFetches # {}
  /\ result = <<>>

\* C10: when importDependencies fails, it fails with the error thrown
\* inside importMany if that is RemoteScopeNotFound or PermissionDenied, and
\* with DependencyNotFound (carrying the id of a ComponentNotFound) otherwise; the
\* fetch that threw is the last one of the call: nothing is left running.
C10_ImportDependenciesErrors ==
  (call.entry = "importDependencies" /\ outcome = "failed") =>
    /\ cause.kind \in {"RemoteScopeNotFound", "PermissionDenied"} =>
         error = cause
    /\ cause.kind \notin {"RemoteScopeNotFound", "PermissionDenied"} =>
         error = Err("DependencyNotFound",
                     IF cause.kind = "ComponentNotFound" THEN cause.id
                     ELSE <<>>)
    /\ stack = <<>>
    /\ cause.kind \in RemoteErrors =>
         /\ fetchLog # <<>>
         /\ fetchLog[Len(fetchLog)].error = cause.kind
         /\ \A k \in 1..(Len(fetchLog) - 1) : fetchLog[k].error = "none"

C10_Witness ==
  /\ call.entry = "importDependencies" /\ outcome = "failed"
  /\ cause.kind = "PermissionDenied" /\ error.kind = "PermissionDenied"
  /\ Len(fetchLog) = 2

\* no element occurs twice in the list
DuplicateFree(list) ==
  \A i, j \in 1..Len(list) : list[i] = list[j] => i = j

\* C11: importManyObjects asks the remote for exactly the hashes it was
\* given that the local store lacks: in whatever order the existence checks
\* resolve, no fetch is issued before all of them have resolved, at most one
\* fetch is issued, of type "object", and its request lists under each scope
\* every hash given for that scope that was not in the store, once, lists no
\* hash the store had, and has no scope with an empty list; nothing is
\* inserted or persisted while the answer is awaited or when the fetch
\* failed; when the method has returned after a fetch, addMany was given the
\* answer once and persist was called once, and the store holds the answer
\* only if that persist has ended well; when nothing was missing there is no
\* fetch, no insert and no persist.
C11_ObjectsRequestIsTheMissingHashes ==
  LET g == objectsCall.groupedHashes
      had == objectsCall.had
  IN /\ objectsCall.phase = "checking" =>
          ObjectFetches = <<>> /\ objects = had
     /\ Len(ObjectFetches) <= 1
     /\ \A k \in 1..Len(ObjectFetches) :
          LET r == ObjectFetches[k].request
          IN /\ ObjectFetches[k].type = "object"
             /\ DOMAIN r \subseteq DOMAIN g
             /\ \A s \in DOMAIN r :
                  /\ r[s] # <<>>
                  /\ DuplicateFree(r[s])
                  /\ Range(r[s]) = Range(g[s]) \ had
             /\ \A s \in DOMAIN g \ DOMAIN r : Range(g[s]) \subseteq had
     /\ objectsCall.phase \in {"fetched", "failed"} =>
          /\ objectsLog.inserts = <<>> /\ objectsLog.persists = 0
          /\ ~objectsLog.persisting
          /\ objects = had
     /\ objectsCall.phase \in {"done", "failed"} =>
          /\ (\A s \in DOMAIN g : Range(g[s]) \subseteq had)
               <=> ObjectFetches = <<>>
          /\ ObjectFetches = <<>> =>
               /\ objectsLog.inserts = <<>> /\ objectsLog.persists = 0
               /\ ~objectsLog.persisting
               /\ objects = had
          /\ (ObjectFetches # <<>> /\ objectsCall.phase = "done") =>
               /\ objectsLog.inserts = <<ObjectFetches[1].got>>
               /\ objectsLog.persists = 1
               /\ IF objectsLog.flushed = {TRUE}
                  THEN objects = had \cup ObjectFetches[1].got
                  ELSE objects = had

\* a request of two scopes, made from a list with a repeated hash and a list
\* with a hash the store had; the method has returned and its persist is
\* still under way
C11_Witness ==
  /\ objectsCall.phase = "done"
  /\ Len(ObjectFetches) = 1
  /\ DOMAIN ObjectFetches[1].request = RemoteScopes
  /\ objectsCall.groupedHashes["remA"] = <<"h1", "h1">>
  /\ objectsCall.groupedHashes["remB"] = <<"h2", "h3">>
  /\ objectsCall.had = {"h2"}
  /\ objectsLog.persisting

\* (scope, lane name) of a Lane or of an entry of the tracking table
KeyOf(x) == <<x.scope, x.name>>

\* the tracked entries of the (scope, lane name) of x
EntriesOf(table, x) == {t \in table : KeyOf(t) = KeyOf(x)}

\* the pointers the table holds for the (scope, lane name) of x
PointersOf(table, x) ==
  UNION {Range(t.components) : t \in EntriesOf(table, x)}

\* the Lanes a logged fetch brought
FetchedLanes(e) ==
  {e.got[k] : k \in {i \in 1..Len(e.got) : e.got[i].type = "lane"}}

\* the pointers of the lane, and the pointers held before to components the
\* lane does not list
MergedPointers(before, lane) ==
  Range(lane.components)
    \cup {p \in PointersOf(before, lane) :
            \A q \in Range(lane.components) : ~SameComponent(p, q)}

\* no Lane of the set has the (scope, lane name) of t
Unfetched(t, lanes) == \A l \in lanes : KeyOf(l) # KeyOf(t)

LastLanesFetch == lanesLog[Len(lanesLog)]

\* C12 as stated: after importLanes was called twice with the same lane
\* references, the table holds for every (scope, lane name) fetched last
\* exactly one entry, whose pointer set is the one of the Lane fetched last,
\* and the entries of the other (scope, lane name) are unchanged.
C12_EntryIsTheLastFetchedLane ==
  (call.entry = "importLanes" /\ call.no = 2 /\ outcome = "ok") =>
    LET e == LastLanesFetch
    IN /\ \A l \in FetchedLanes(e) :
            /\ Cardinality(EntriesOf(remoteLanes, l)) = 1
            /\ PointersOf(remoteLanes, l) = Range(l.components)
       /\ {t \in remoteLanes : Unfetched(t, FetchedLanes(e))}
            = {t \in e.before : Unfetched(t, FetchedLanes(e))}

\* C12 as amended: lane sync is idempotent and merges: when an importLanes,
\* the first one or a repeated one, has returned, the tracking table holds
\* for the (scope, lane name) of every Lane it fetched exactly one entry,
\* with one pointer for a component; the entry holds the pointers of the
\* fetched Lane and keeps the pointers it had before to components that
\* Lane does not list; a second call that fetches the Lanes the first one
\* fetched leaves the table as the first one left it; the entries of every
\* (scope, lane name) not fetched are at all times the ones the table held
\* before the call; an importLanes whose fetch failed leaves the table as it
\* was.
C12_LaneSyncMerges ==
  lanesLog # <<>> =>
    LET e == LastLanesFetch
        fetched == FetchedLanes(e)
    IN /\ e.type = "lane"
       /\ e.error # "none" => remoteLanes = e.before /\ syncing = {}
       /\ {t \in remoteLanes : Unfetched(t, fetched)}
            = {t \in e.before : Unfetched(t, fetched)}
       /\ (call.entry = "importLanes" /\ outcome = "ok") =>
            /\ syncing = {}
            /\ Range(result) = fetched
            /\ \A l \in fetched :
                 /\ Cardinality(EntriesOf(remoteLanes, l)) = 1
                 /\ PointersOf(remoteLanes, l) = MergedPointers(e.before, l)
                 /\ \A p, q \in PointersOf(remoteLanes, l) :
                      SameComponent(p, q) => p = q
            /\ (call.no = 2 /\ FetchedLanes(lanesLog[1]) = fetched) =>
                 remoteLanes = e.before

\* the same lane imported twice, with the same Lane fetched both times,
\* while the lane is tracked with an older head of one component and with a
\* pointer the fetched Lane does not list, and another lane is tracked too
C12_Witness ==
  /\ call.entry = "importLanes" /\ call.no = 2 /\ outcome = "ok"
  /\ call.ids = <<LaneA>>
  /\ Len(lanesLog) = 2
  /\ lanesLog[1].before = {TrackedLane("remA", "dev", <<E2, E1>>),
                           TrackedLane("remB", "fix", <<E1v2>>)}
  /\ lanesLog[1].got = <<Lane(LaneA, <<E1v2>>)>>
  /\ lanesLog[2].got = <<Lane(LaneA, <<E1v2>>)>>
  /\ remoteLanes = {TrackedLane("remA", "dev", <<E2, E1v2>>),
                    TrackedLane("remB", "fix", <<E1v2>>)}
  /\ remoteLanes = lanesLog[2].before


\* ---------------------------------------------------------------------- C14
\* the fetches _getExternalMany made in the running (or last) call
ManyFetches == {k \in CallFetches : fetchLog[k].by = "_getExternalMany"}

\* the ids of list ids that are not in set S, in the order of the list
Without(ids, S) == SelectSeq(ids, LAMBDA id : id \notin S)

\* C14: a fetch request of _getExternalMany lists, with localFetch true, the
\* requested ids that have no Component Record in the store, in their order,
\* and with localFetch false every requested id; the call made after the
\* write-back runs with localFetch true, so an id that had its record when
\* it was fetched is in no later request of the call.
C14_ResidualComputation ==
  \A k \in ManyFetches :
    LET e == fetchLog[k]
    IN /\ e.localFetch => e.ids = Without(e.asked, e.known)
       /\ ~e.localFetch => e.ids = e.asked
       /\ e.depth >= 1 => e.localFetch
       /\ \A j \in ManyFetches :
            j > k => Range(fetchLog[j].ids) \cap e.known = {}

\* a call with cache=false fetched an id it had the record of, the batch
\* left another id out, and the second request lists only that other id
C14_Witness ==
  \E k, j \in ManyFetches :
    /\ k < j
    /\ ~fetchLog[k].localFetch
    /\ fetchLog[k].known \cap Range(fetchLog[k].ids) # {}
    /\ fetchLog[j].localFetch /\ fetchLog[j].depth = 1
    /\ Len(fetchLog[j].ids) < Len(fetchLog[j].asked)

\* ---------------------------------------------------------------------- C13
IsLoadComponent == call.entry = "loadComponent" /\ outcome # "idle"

\* C13: loadComponent with localOnly and an id of another scope fails with
\* GeneralError with no lookup in the local store and no fetch made; with
\* localOnly false, or an id of the importer's own scope, the store is asked
\* for the id (the first thing the call awaits), the call never fails with
\* that error, and when it has returned its result is the component of that
\* id.
C13_LocalOnlyRefusesRemote ==
  IsLoadComponent =>
    LET id == call.ids[1]
    IN IF call.localOnly /\ id.scope # Self
       THEN /\ outcome = "failed"
            /\ error = Err("GeneralError", <<>>)
            /\ notes.looked = {}
            /\ CallFetches = {}
       ELSE /\ id \notin notes.looked =>
                 /\ AtRead(Current)
                 /\ Len(stack) = 2 /\ Top.ids = <<id>>
                 /\ CallFetches = {}
            /\ outcome = "failed" => error.kind # "GeneralError"
            /\ outcome = "ok" => result = <<[consumer |-> id]>>

\* a refused call, on a store that holds the component
C13_Witness ==
  /\ IsLoadComponent
  /\ call.localOnly /\ call.ids[1].scope # Self
  /\ call.ids[1] \in records
  /\ outcome = "failed"

\* ---------------------------------------------------------------------- C15
\* the id strings a request lists under scope name s
ListedUnder(request, s) == Range(request[s])

\* C15: in every fetch request made through importMany,
\* importManyWithoutDependencies, importManyWithAllVersions or loadComponent,
\* an id string stands under the key that is the scope of its id, the
\* request lists the ids to fetch and no others, and no id of the importer's
\* own scope is in a request.
C15_RequestsGroupedByOwnScope ==
  \A k \in 1..Len(fetchLog) :
    LET e == fetchLog[k]
    IN /\ \A s \in DOMAIN e.request :
            /\ s # Self
            /\ ListedUnder(e.request, s)
                 = {IdToString(id) : id \in {x \in Range(e.ids) : x.scope = s}}
       /\ \A id \in Range(e.ids) : id.scope \in DOMAIN e.request
       /\ \A id \in Range(e.ids) : id.scope # Self

\* a call given ids of its own scope and of others has sent a request that
\* lists ids of two scopes
C15_Witness ==
  /\ \E id \in Range(call.ids) : id.scope = Self
  /\ \E k \in CallFetches :
       /\ Cardinality(DOMAIN fetchLog[k].request) = 2
       /\ fetchLog[k].error = "none"

\* ---------------------------------------------------------------------- C16
\* the fetches _getExternal made in the running (or last) call
SingleFetches == {k \in CallFetches : fetchLog[k].by = "_getExternal"}

\* C16: a fetch of _getExternal is made for one id of another scope whose
\* Component Record is in the store and whose Version Content is not, with
\* the cache off, and its request lists that id alone; when the batch
\* supplies the content, the content is in the store afterwards, the id is
\* not fetched by _getExternal again later in the call, and a call of importMany
\* that returns lists the closure of the id.
C16_ForcedRefetchOfMissingContent ==
  \A k \in SingleFetches :
    LET e == fetchLog[k]
        id == e.ids[1]
    IN /\ Len(e.ids) = 1
       /\ id.scope # Self
       /\ id \in e.had /\ id \notin e.hadContent
       /\ ~e.localFetch
       /\ DOMAIN e.request = {id.scope}
       /\ e.request[id.scope] = <<IdToString(id)>>
       /\ FullySupplied(e) =>
            /\ GetVersion(Store, id)
            /\ \A j \in SingleFetches : j > k => fetchLog[j].ids # e.ids
            /\ (outcome = "ok" /\ call.entry = "importMany"
                  /\ id \in Range(call.ids)) => id \in Range(ResultIds)

\* importMany has returned the closure of an id whose content was missing,
\* after one forced fetch that supplied it
C16_Witness ==
  /\ outcome = "ok" /\ call.entry = "importMany"
  /\ \E k \in SingleFetches :
       /\ FullySupplied(fetchLog[k])
       /\ fetchLog[k].ids[1] \in Range(call.ids)
       /\ fetchLog[k].ids[1] \in fetchLog[k].had
       /\ SingleFetches = {k}

\* ---------------------------------------------------------------------- C17
\* the ids of the three flattened lists of the requested ids
ListedDependencies == UNION {Range(AllDependencies(id)) : id \in Range(call.ids)}

\* the ids of a list of ComponentVersions
VersionIds(cvs) == [k \in 1..Len(cvs) |-> ComponentVersionId(cvs[k])]

\* two lists of the same length that hold the same ids
SameIds(xs, ys) == Len(xs) = Len(ys) /\ Range(xs) = Range(ys)

\* the chain of calls of one shallow resolution
ShallowChain ==
  <<"importMany", "_getExternalMany", "componentToVersionDependencies",
    "importManyWithoutDependencies", "_getExternalManyWithoutDependencies">>

\* C17: the flattened lists are read of requested ids only, never of a
\* dependency; the store is asked, and the remote is asked, for requested
\* ids and the ids of their own three lists only; the chain of calls is
\* never deeper than that of one shallow resolution; and a closure that is
\* returned lists the ids of the three lists of its component and has as
\* many entries as they have.
C17_ExpansionIsOneLevelDeep ==
  call.entry \in {"importMany", "importDependencies",
                  "importManyWithoutDependencies"} =>
    /\ notes.expanded \subseteq
         (IF call.entry = "importManyWithoutDependencies" THEN {}
          ELSE Range(call.ids))
    /\ notes.looked \subseteq
         (IF call.entry = "importManyWithoutDependencies"
          THEN Range(call.ids)
          ELSE Range(call.ids) \cup ListedDependencies)
    /\ \A k \in CallFetches :
         /\ Range(fetchLog[k].ids) \subseteq Range(fetchLog[k].asked)
         /\ (call.entry # "importManyWithoutDependencies"
               /\ fetchLog[k].opts = "withoutDependencies")
              => Range(fetchLog[k].ids) \subseteq ListedDependencies
         /\ fetchLog[k].opts # "withoutDependencies"
              => Range(fetchLog[k].ids) \subseteq Range(call.ids)
    /\ Len(stack) <= Len(ShallowChain)
    /\ (outcome = "ok" /\ call.entry # "importManyWithoutDependencies") =>
         \A k \in 1..Len(result) :
           LET id == ComponentVersionId(result[k].component)
           IN /\ SameIds(VersionIds(result[k].dependencies),
                         Flattened(id).dependencies)
              /\ SameIds(VersionIds(result[k].devDependencies),
                         Flattened(id).devDependencies)
              /\ SameIds(VersionIds(result[k].extensionsDependencies),
                         Flattened(id).extensions)

\* the closure of remA/c, whose dependency remB/d lists remA/c in turn, has
\* been returned after remB/d was fetched without its dependencies
C17_Witness ==
  /\ call.entry = "importMany" /\ outcome = "ok"
  /\ call.ids = <<E1>>
  /\ notes.expanded = {E1}
  /\ E1 \in Range(AllDependencies(E2))
  /\ \E k \in CallFetches :
       /\ fetchLog[k].opts = "withoutDependencies"
       /\ E2 \in Range(fetchLog[k].ids)

\* ---------------------------------------------------------------------- C18
\* the ids of the closures the first pass of an expansion resolved
ResolvedByFirstPass(n) ==
  {ComponentVersionId(n.first[k].component) : k \in 1..Len(n.first)}

\* an id of every version tag and of the head of the records the first pass
\* resolved
KnownVersionIds(n) ==
  UNION {LET cv == n.first[k].component
             versionId == ComponentVersionId(cv)
         IN {ChangeVersion(versionId, v) :
               v \in Range(ListVersions(cv.component))
                       \cup Range(GetHead(cv.component))} :
         k \in 1..Len(n.first)}

\* C18: the expanded identifier set of importManyWithAllVersions holds an id
\* of every version tag and of the head of every record the first pass
\* resolved, except the ids the first pass resolved, and holds none of those.
C18_ExpandedSetExcludesResolved ==
  \A k \in 1..Len(notes.allVersions) :
    LET n == notes.allVersions[k]
    IN /\ KnownVersionIds(n) \ ResolvedByFirstPass(n) \subseteq Range(n.expanded)
       /\ Range(n.expanded) \cap ResolvedByFirstPass(n) = {}

\* ---------------------------------------------------------------------- C19
\* id names the component of an id of list ids, whatever the versions
Covered(ids, id) == \E x \in Range(ids) : x.scope = id.scope /\ x.name = id.name

\* C19: in deep mode the list given to the nested importManyWithAllVersions
\* has no id twice, has no id of a component the original request names,
\* whatever the version, and has every other dependency id of the closures
\* collected so far, and nothing else.
C19_NestedRequestIsNewDependencies ==
  \A k \in 1..Len(notes.nested) :
    LET n == notes.nested[k]
        dependencyIds == Range(AllFlattenDepsIds(n.closures))
    IN /\ DuplicateFree(n.passed)
       /\ \A id \in Range(n.passed) : ~Covered(n.ids, id)
       /\ \A id \in dependencyIds : ~Covered(n.ids, id) => id \in Range(n.passed)
       /\ Range(n.passed) \subseteq dependencyIds
       /\ n.ids = call.ids

\* a deep call has returned; the closures listed a dependency twice and
\* listed another version of a requested component
C19_Witness ==
  /\ call.entry = "importManyWithAllVersions" /\ call.allDepsVersions
  /\ outcome = "ok"
  /\ \E k \in 1..Len(notes.nested) :
       LET n == notes.nested[k]
           all == AllFlattenDepsIds(n.closures)
       IN /\ n.passed # <<>>
          /\ \E i, j \in 1..Len(all) : i # j /\ all[i] = all[j] /\ ~Covered(n.ids, all[i])
          /\ \E id \in Range(all) : Covered(n.ids, id) /\ id \notin Range(n.ids)

\* ---------------------------------------------------------------------- C20
\* the fetches of the running (or last) call whose batch was written
CallWrites == {k \in CallFetches : fetchLog[k].error = "none"}

\* C20: when importMany is called with persist = false, every batch fetched
\* during the call, also by the calls made after a write-back and by the
\* expansion of dependencies, is written with persist = false.
C20_PersistFlagRespected ==
  (call.entry = "importMany" /\ ~call.persist) =>
    \A k \in CallWrites : ~fetchLog[k].persist

\* ---------------------------------------------------------------------- C21
\* the frames of importManyWithAllVersions on the stack
AllVersionsFrames ==
  {k \in 1..Len(stack) : stack[k].fn = "importManyWithAllVersions"}

\* at most two calls of importManyWithAllVersions are nested, and the inner
\* one runs with deep disabled and the cache enabled
NestingBounded ==
  /\ Cardinality(AllVersionsFrames) <= 2
  /\ \A k \in AllVersionsFrames :
       /\ stack[k].depth <= 1
       /\ stack[k].depth = 1 => ~stack[k].allDepsVersions /\ stack[k].localFetch
  /\ Len(notes.nested) <= 1
  /\ Len(notes.allVersions) <= 2
  /\ \A k \in 1..Len(notes.allVersions) :
       LET n == notes.allVersions[k]
       IN /\ n.depth <= 1
          /\ n.depth = 1 => ~n.deep /\ n.cache
  /\ \A k \in 1..Len(notes.nested) : notes.nested[k].depth = 0

\* the call is suspended at a remotes.fetch of one of the resolvers, which
\* the remote answers
AwaitsRemote ==
  /\ stack # <<>>
  /\ Top.pc = "fetch" /\ Top.left # <<>>
  /\ Top.fn \in {"_getExternalMany", "_getExternal",
                 "_getExternalManyWithoutDependencies"}

\* the call awaits the write of the batch the remote has just answered with
AwaitsWrite ==
  /\ AtWrite(Current)
  /\ fetchLog # <<>>
  /\ fetchLog[Len(fetchLog)].by = Top.fn
  /\ fetchLog[Len(fetchLog)].error = "none"

\* no resolver sends the same request twice in one call: every fetch of the
\* call is a new one of the finitely many requests over the ids of the store
NoFetchRepeated ==
  \A j, k \in CallFetches :
    (j < k /\ fetchLog[j].by = fetchLog[k].by)
      => fetchLog[j].ids # fetchLog[k].ids

\* C21: in a deep importManyWithAllVersions the nested call runs with deep
\* disabled and the cache enabled, so no more than two calls of
\* importManyWithAllVersions are ever nested; and with a remote that
\* satisfies every fetch the call finishes: it never fails, while it runs
\* it only awaits an answer of the remote, the write of the batch just
\* answered or a read of the store, and it never repeats a request, so that
\* it has returned once the remote has answered its requests.
C21_DeepImportTerminates ==
  /\ NestingBounded
  /\ outcome \in {"idle", "running", "ok"}
  /\ outcome = "running" => AwaitsRemote \/ AwaitsWrite \/ AtRead(Current)
  /\ NoFetchRepeated
  /\ outcome = "ok" => stack = <<>>

\* a deep call for self/a has returned after fetches; the dependencies
\* remA/c and remB/d, which list each other, went to the nested call
C21_Witness ==
  /\ call.entry = "importManyWithAllVersions" /\ call.allDepsVersions
  /\ call.ids = <<L1>>
  /\ outcome = "ok"
  /\ CallFetches # {}
  /\ E2 \in Range(AllDependencies(E1)) /\ E1 \in Range(AllDependencies(E2))
  /\ \E k \in 1..Len(notes.nested) :
       {E1, E2} \subseteq Range(notes.nested[k].passed)
  /\ \E k \in 1..Len(notes.allVersions) : notes.allVersions[k].depth = 1

\* ---------------------------------------------------------------------- C22
\* the lane fetches of the running (or last) call, as indexes of lanesLog
CallLaneFetches == {j \in 1..Len(lanesLog) : lanesLog[j].call = call.no}

\* the table holds every pointer of every Lane of the set
Tracks(table, lanes) ==
  \A l \in lanes : Range(l.components) \subseteq PointersOf(table, l)

\* the call has looked a component id up or has fetched one
ComponentsStarted == notes.looked # {} \/ CallFetches # {}

\* C22: importFromLanes looks no component id up and fetches none while a
\* sync of a fetched Lane is under way or has not started: when the first
\* lookup is made, and at every fetch of a component, the tracking table
\* holds every pointer of every fetched Lane and no sync is left; the table
\* keeps them whatever happens afterwards, also when the import of the
\* components fails, and then the call fails with that error; when the fetch
\* of the lanes fails the table is unchanged, and when it or a sync fails
\* the call fails and no component is looked up or fetched.
C22_LanesSyncedBeforeComponents ==
  (call.entry = "importFromLanes" /\ outcome # "idle") =>
    /\ Cardinality(CallLaneFetches) <= 1
    /\ ComponentsStarted =>
         /\ syncing = {}
         /\ \E j \in CallLaneFetches : lanesLog[j].error = "none"
         /\ cause.kind \notin SyncErrors
    /\ \A j \in CallLaneFetches :
         LET e == lanesLog[j]
             fetched == FetchedLanes(e)
         IN IF e.error = "none"
            THEN /\ (ComponentsStarted \/ outcome = "ok") =>
                      Tracks(remoteLanes, fetched)
                 /\ \A k \in CallFetches :
                      /\ Tracks(fetchLog[k].tracked, fetched)
                      /\ fetchLog[k].tracked = remoteLanes
                      /\ fetchLog[k].error # "none" =>
                           outcome = "failed" /\ error.kind = fetchLog[k].error
                 /\ outcome = "ok" => Range(result) = fetched
                 /\ cause.kind \in SyncErrors =>
                      outcome = "failed" /\ error = cause
            ELSE /\ outcome = "failed" /\ error.kind = e.error
                 /\ remoteLanes = e.before /\ syncing = {}
                 /\ ~ComponentsStarted

\* two lanes were fetched and changed the table, the fetch of their
\* components failed, and so did the call
C22_Witness ==
  /\ call.entry = "importFromLanes" /\ outcome = "failed"
  /\ \E j \in CallLaneFetches :
       /\ lanesLog[j].error = "none"
       /\ Cardinality(FetchedLanes(lanesLog[j])) = 2
       /\ remoteLanes # lanesLog[j].before
       /\ Tracks(remoteLanes, FetchedLanes(lanesLog[j]))
  /\ \E k \in CallFetches : fetchLog[k].error # "none"
====
